---- MODULE Spec2Model ----
(***************************************************************************)
(* A model of the two NIR lowering passes of the Intel compiler            *)
(*   brw_nir_lower_rt_intrinsics.c  (ray-tracing system values)            *)
(*   brw_nir_lower_cs_intrinsics.c  (compute system values)                *)
(* as state machines that walk a shader instruction by instruction, and    *)
(* of the values the lowered code computes when it runs, and of the draw   *)
(* and clear entry points of the lima driver (lima_draw_vbo, lima_clear)   *)
(* that the second file also holds: one action per call.                   *)
(*                                                                         *)
(* assert() is modelled as in a build with assertions enabled: a failed    *)
(* assertion ends the pass in pc = "abort".                                *)
(***************************************************************************)
EXTENDS Integers, Sequences, FiniteSets, TLC

VARIABLES
    stage,      \* b->shader->info.stage
    prog,       \* the shader the running pass reads, as far as it has read it
    out,        \* the shader the running pass leaves behind, in program order
    uses,       \* per original instruction id: the value its consumers read
    pc,         \* "idle", "impl", "instr", "done", "abort", "crash"
    run,        \* how many times the pass has been started on this shader
    curf,       \* the function (impl) being lowered
    idx,        \* index in prog of the next instruction to visit
    seen_scratch_base_ptr_load,
    found_resume,
    stack_base_offset,  \* immediates added so far to channel 0 of the hotzone
    firstOut,   \* the output of the first run, kept to compare the second with
    hotzone,    \* channel 0 of the hotzone in memory: the stack-offset cursor
    log,        \* the hotzone stores the invocations have made, in order
    invocations,\* how many invocations have run
    info,       \* nir->info of the compute shader: stage and info.cs
    csProg,     \* the compute shader, as far as the pass has read it
    csOut,      \* the compute shader the pass leaves behind
    csUses,     \* per original instruction id: the value its consumers read
    csPc,       \* "idle", "start", "instr", "done", "abort"
    local_index,\* this block's cached local_index def (0: NULL)
    local_id,   \* this block's cached local_id def (0: NULL)
    progress,   \* state->progress
    dispatch,   \* the workgroup size and SIMD width the lowered shader runs at
    threads,    \* per subgroup run so far, per lane: the values its reads got
    ctx,        \* struct lima_context: the state the draw code reads and writes
    jobs,       \* ctx->jobs: the jobs not yet submitted, by framebuffer key
    write_jobs, \* ctx->write_jobs: per resource, the job that last wrote it
    submitted,  \* the jobs lima_do_job has submitted, in order
    index_data, \* per index resource: the indices it holds
    index_cache,\* per index resource: res->index_cache
    call,       \* the last call made: its entry point and arguments
    trace,      \* what the last call did, in order
    ncalls      \* how many calls have been made

rtPassVars == <<stage, prog, out, uses, pc, run, curf, idx,
                seen_scratch_base_ptr_load, found_resume, stack_base_offset,
                firstOut>>

rtExecVars == <<hotzone, log, invocations>>

csPassVars == <<info, csProg, csOut, csUses, csPc, local_index, local_id,
                progress>>

csExecVars == <<dispatch, threads>>

limaVars == <<ctx, jobs, write_jobs, submitted, index_data, index_cache,
              call, trace, ncalls>>

vars == <<rtPassVars, rtExecVars, csPassVars, csExecVars, limaVars>>

\* What an action of the ray-tracing pass leaves alone.
notRTPass == <<rtExecVars, csPassVars, csExecVars, limaVars>>

\* What a step of a lowered ray-tracing shader leaves alone.
notRTExec == <<rtPassVars, csPassVars, csExecVars, limaVars>>

\* What the compute pass and the lowered compute shader leave alone.
notCS == <<rtPassVars, rtExecVars, limaVars>>

\* What a call into the draw code leaves alone.
notLima == <<rtPassVars, rtExecVars, csPassVars, csExecVars>>

\* No draw code is running: there is no context.
InitLimaIdle ==
    /\ ctx = <<>>
    /\ jobs = <<>>
    /\ write_jobs = <<>>
    /\ submitted = <<>>
    /\ index_data = <<>>
    /\ index_cache = <<>>
    /\ call = <<>>
    /\ trace = <<>>
    /\ ncalls = 0

----------------------------------------------------------------------------
(* Bounds *)

\* The most instructions a shader given to a pass holds.
MaxInstrs == 2

\* The largest prim_leaf_index a hit record is given.
MaxLeafIndex == 3

\* The most invocations of lowered functions that run on one hotzone.
MaxInvocations == 2

\* The largest workgroup dimension, the sizes named below apart.
MaxDim == 3

----------------------------------------------------------------------------
(* Shaders *)

RAYGEN       == "MESA_SHADER_RAYGEN"
ANY_HIT      == "MESA_SHADER_ANY_HIT"
CLOSEST_HIT  == "MESA_SHADER_CLOSEST_HIT"
MISS         == "MESA_SHADER_MISS"
INTERSECTION == "MESA_SHADER_INTERSECTION"
CALLABLE     == "MESA_SHADER_CALLABLE"
COMPUTE      == "MESA_SHADER_COMPUTE"

RTStages == {RAYGEN, ANY_HIT, CLOSEST_HIT, MISS, INTERSECTION, CALLABLE, COMPUTE}

\* The functions of a shader and the blocks of a function; block 1 is
\* nir_start_block(impl).
Funcs  == {1, 2}
Blocks == {1, 2}

\* Where an instruction sits: <<function, block>>, in program order.
Positions == {<<1, 1>>, <<1, 2>>, <<2, 1>>}

\* The intrinsics whose replacement is a field of RT_DISPATCH_GLOBALS.
GlobalsKinds == {
    "load_ray_launch_size",
    "load_ray_base_mem_addr_intel",
    "load_ray_hw_stack_size_intel",
    "load_ray_sw_stack_size_intel",
    "load_ray_num_dss_rt_stacks_intel",
    "load_ray_hit_sbt_addr_intel",
    "load_ray_hit_sbt_stride_intel",
    "load_ray_miss_sbt_addr_intel",
    "load_ray_miss_sbt_stride_intel",
    "load_callable_sbt_addr_intel",
    "load_callable_sbt_stride_intel" }

WorldRayKinds == {
    "load_ray_world_origin", "load_ray_world_direction",
    "load_ray_t_min", "load_ray_flags" }

ObjectRayKinds == { "load_ray_object_origin", "load_ray_object_direction" }

HitKinds == {
    "load_primitive_id", "load_ray_hit_kind", "load_ray_geometry_index",
    "load_leaf_procedural_intel", "load_leaf_opaque_intel" }

InstanceLeafKinds == {
    "load_instance_id", "load_ray_object_to_world",
    "load_ray_world_to_object", "load_ray_instance_custom_index" }

MarkerKinds == { "btd_stack_push_intel", "btd_resume_intel" }

\* Every case label of the switch of lower_rt_intrinsics_impl.
RTCaseKinds ==
    MarkerKinds \cup GlobalsKinds \cup WorldRayKinds \cup ObjectRayKinds
    \cup HitKinds \cup InstanceLeafKinds
    \cup { "load_scratch_base_ptr", "load_uniform", "load_ray_launch_id",
           "load_ray_t_max", "load_shader_record_ptr",
           "load_btd_resume_sbt_addr_intel" }

\* An intrinsic no case names, and an instruction that is no intrinsic.
OtherKinds == { "load_btd_local_arg_addr_intel", "alu" }

\* The immediates nir_intrinsic_range() gives a marker and
\* nir_intrinsic_base() a scratch base pointer load.
RangeSet == {0, 64}
BaseSet  == {0, 1}

\* The immediate operands of an instruction, as a sequence.
ArgsOf(kind) ==
    IF kind \in MarkerKinds THEN { <<r>> : r \in RangeSet }
    ELSE IF kind = "load_scratch_base_ptr" THEN { <<a>> : a \in BaseSet }
    ELSE { <<>> }

\* An instruction of the shader given to the pass: its kind, its immediate
\* operands, its place and its number in the shader.
Instr(kind, arg, pos, id) ==
    [kind |-> kind, arg |-> arg, pos |-> pos, id |-> id, by |-> 0]

\* An instruction the builder inserted with its cursor after instruction
\* `by` (0: before the entry block).
Emitted(kind, arg, pos, by) ==
    [kind |-> kind, arg |-> arg, pos |-> pos, id |-> 0, by |-> by]

\* The kinds whose lowering reads or writes a local of the impl
\* (seen_scratch_base_ptr_load, found_resume, stack_base_offset), and one
\* instruction that is no intrinsic.
StructuralKinds ==
    MarkerKinds \cup {"load_scratch_base_ptr", "load_shader_record_ptr", "alu"}

RTKinds == RTCaseKinds \cup OtherKinds

----------------------------------------------------------------------------
(* Values: what an SSA definition is, as the builder calls that made it *)

Val(op, src, imm, sel) == [op |-> op, src |-> src, imm |-> imm, sel |-> sel]

NULL      == Val("NULL", "", <<>>, "")
Undef     == Val("undef", "", <<>>, "")
Field(f)  == Val("field", f, <<>>, "")
OwnDef(i) == Val("ssa", "", <<i>>, "")

----------------------------------------------------------------------------
(* brw_nir_lower_rt_intrinsics.c *)

\* The records the prologue of lower_rt_intrinsics_impl loads for a stage;
\* the fields of a record that is not loaded stay NULL.
HitLoaded(s)       == s \in {ANY_HIT, CLOSEST_HIT, INTERSECTION}
ObjectRayLoaded(s) == s \in {ANY_HIT, CLOSEST_HIT, INTERSECTION}
WorldRayLoaded(s)  == s \in {ANY_HIT, CLOSEST_HIT, INTERSECTION, MISS}

hit_in(s, f)        == IF HitLoaded(s) THEN Field("hit_in." \o f) ELSE NULL
object_ray_in(s, f) == IF ObjectRayLoaded(s) THEN Field("object_ray_in." \o f) ELSE NULL
world_ray_in(s, f)  == IF WorldRayLoaded(s) THEN Field("world_ray_in." \o f) ELSE NULL

Prologue_none(s) == <<>>

\* The instructions the prologue inserts before the entry block of an impl.
\* None is an intrinsic the switch names, so the loop passes over them.
Prologue(s) ==
    <<"brw_nir_rt_load_globals", "brw_nir_rt_sw_hotzone_addr", "nir_load_global">>
    \o (IF HitLoaded(s) THEN <<"brw_nir_rt_load_mem_hit">> ELSE <<>>)
    \o (IF ObjectRayLoaded(s) THEN <<"brw_nir_rt_load_mem_ray_object">> ELSE <<>>)
    \o (IF WorldRayLoaded(s) THEN <<"brw_nir_rt_load_mem_ray_world">> ELSE <<>>)
    \o <<"brw_nir_rt_sw_stack_addr", "nir_channel", "nir_u2u64", "nir_iadd">>

build_leaf_is_procedural_swapped(s, leaf_type) ==
    IF s = ANY_HIT THEN Val("imm_true", "", <<>>, "")
    ELSE IF s = INTERSECTION THEN Val("imm_false", "", <<>>, "")
    ELSE IF leaf_type = NULL THEN Val("UB", "", <<>>, "")
    ELSE Val("ieq", leaf_type.src, <<>>, "BRW_RT_BVH_NODE_TYPE_PROCEDURAL")

\* nir_ieq on a NULL source dereferences it: undefined behaviour.
build_leaf_is_procedural(s, leaf_type) ==
    IF s = ANY_HIT THEN Val("imm_false", "", <<>>, "")
    ELSE IF s = INTERSECTION THEN Val("imm_true", "", <<>>, "")
    ELSE IF leaf_type = NULL THEN Val("UB", "", <<>>, "")
    ELSE Val("ieq", leaf_type.src, <<>>, "BRW_RT_BVH_NODE_TYPE_PROCEDURAL")

UB == Val("UB", "", <<>>, "")

\* A builder call on operand x: undefined behaviour when x is NULL (the
\* builder reads x->bit_size or x->num_components).
Built(x, v) == IF x = NULL \/ x = UB THEN UB ELSE v

\* The value `sysval` holds at the end of the switch for the value-producing
\* cases: NULL where the code leaves it NULL.
Sysval(kind, s, sbo) ==
    CASE kind = "load_scratch_base_ptr" ->
           Val("stack_base_addr", "thread_stack_base_addr", sbo, "")
      [] kind = "load_uniform" ->
           IF s = COMPUTE THEN NULL
           ELSE Val("load_push_const", "btd_global_arg_addr", <<>>, "")
      [] kind = "load_ray_launch_id" -> Val("nir_channels", "hotzone", <<14>>, "")
      [] kind = "load_ray_launch_size" -> Field("globals.launch_size")
      [] kind = "load_ray_world_origin" -> world_ray_in(s, "orig")
      [] kind = "load_ray_world_direction" -> world_ray_in(s, "dir")
      [] kind = "load_ray_object_origin" -> object_ray_in(s, "orig")
      [] kind = "load_ray_object_direction" -> object_ray_in(s, "dir")
      [] kind = "load_ray_t_min" -> world_ray_in(s, "t_near")
      [] kind = "load_ray_t_max" ->
           IF s = MISS THEN world_ray_in(s, "t_far") ELSE hit_in(s, "t")
      [] kind = "load_primitive_id" ->
           LET pred == build_leaf_is_procedural(s, hit_in(s, "leaf_type")) IN
           Built(pred, Built(hit_in(s, "prim_leaf_index"),
               Val("load_global", "hit_in.prim_leaf_ptr", <<12, 8>>, pred.op)))
      [] kind = "load_instance_id" ->
           Built(hit_in(s, "inst_leaf_ptr"), Field("leaf.instance_index"))
      [] kind = "load_ray_object_to_world" ->
           Built(hit_in(s, "inst_leaf_ptr"), Field("leaf.object_to_world"))
      [] kind = "load_ray_world_to_object" ->
           Built(hit_in(s, "inst_leaf_ptr"), Field("leaf.world_to_object"))
      [] kind = "load_ray_hit_kind" ->
           LET pred == build_leaf_is_procedural(s, hit_in(s, "leaf_type")) IN
           Built(hit_in(s, "front_face"), Built(pred,
               Val("bcsel", "hit_in.aabb_hit_kind", <<>>, pred.op)))
      [] kind = "load_ray_flags" ->
           Built(world_ray_in(s, "ray_flags"),
                 Val("nir_u2u32", "world_ray_in.ray_flags", <<>>, ""))
      [] kind = "load_ray_geometry_index" ->
           Built(hit_in(s, "prim_leaf_ptr"),
                 Val("nir_iand_imm", "hit_in.prim_leaf_ptr", <<4>>, "BITFIELD_MASK(29)"))
      [] kind = "load_ray_instance_custom_index" ->
           Built(hit_in(s, "inst_leaf_ptr"), Field("leaf.instance_id"))
      [] kind = "load_shader_record_ptr" ->
           Val("load_btd_local_arg_addr_intel", "", <<>>, "")
      [] kind = "load_ray_base_mem_addr_intel" -> Field("globals.base_mem_addr")
      [] kind = "load_ray_hw_stack_size_intel" ->
           Val("nir_imul_imm", "globals.hw_stack_size", <<64>>, "")
      [] kind = "load_ray_sw_stack_size_intel" ->
           Val("nir_imul_imm", "globals.sw_stack_size", <<64>>, "")
      [] kind = "load_ray_num_dss_rt_stacks_intel" -> Field("globals.num_dss_rt_stacks")
      [] kind = "load_ray_hit_sbt_addr_intel" -> Field("globals.hit_sbt_addr")
      [] kind = "load_ray_hit_sbt_stride_intel" -> Field("globals.hit_sbt_stride")
      [] kind = "load_ray_miss_sbt_addr_intel" -> Field("globals.miss_sbt_addr")
      [] kind = "load_ray_miss_sbt_stride_intel" -> Field("globals.miss_sbt_stride")
      [] kind = "load_callable_sbt_addr_intel" -> Field("globals.call_sbt_addr")
      [] kind = "load_callable_sbt_stride_intel" -> Field("globals.call_sbt_stride")
      [] kind = "load_btd_resume_sbt_addr_intel" ->
           Val("nir_pack_64_2x32_split", "BRW_SHADER_RELOC_RESUME_SBT_ADDR", <<>>, "")
      [] kind = "load_leaf_procedural_intel" ->
           build_leaf_is_procedural(s, hit_in(s, "leaf_type"))
      [] kind = "load_leaf_opaque_intel" ->
           IF s = INTERSECTION THEN hit_in(s, "front_face")
           ELSE Built(hit_in(s, "prim_leaf_ptr"),
                      Val("nir_i2b", "hit_in.prim_leaf_ptr", <<4>>, "1u << 30"))
      [] OTHER -> NULL

\* Whether the builder calls that made a value inserted an instruction at the
\* cursor: a field of a record loaded by the prologue inserts none.
Emits(val, in) ==
    IF val.op \in {"field", "stack_base_addr"} THEN <<>>
    ELSE <<Emitted(val.op, <<>>, in.pos, in.id)>>

\* if (sysval) { nir_ssa_def_rewrite_uses(...); nir_instr_remove(...); }
SysvalRewritten(sysval) == sysval # NULL

\* assert(block == nir_start_block(impl)); assert(!seen_scratch_base_ptr_load);
ResumeAsserts(block, seen) == block = 1 /\ ~seen

\* assert(!found_resume);
ShaderRecordPtrAsserts(found) == ~found

\* assert(nir_intrinsic_base(intrin) == 1);
ScratchBasePtrAsserts(base) == base = 1

\* nir_iadd_imm(b, stack_base_offset, stack_size): the child's stack offset.
child_stack_offset(sbo, stack_size) == sbo \o <<stack_size>>

\* nir_iadd_imm(b, stack_base_offset, -stack_size)
resume_stack_offset(sbo, stack_size) == sbo \o <<-stack_size>>

\* The instructions of p from index i on that the loop passes over with
\* `continue`: those no case of the switch names.
RECURSIVE SkipTo(_, _, _)
SkipTo(p, f, i) ==
    IF i > Len(p) THEN i
    ELSE IF p[i].pos[1] # f \/ p[i].kind \in RTCaseKinds THEN i
    ELSE SkipTo(p, f, i + 1)

CopyOf(p, i, j) == SubSeq(p, i, j - 1)

PrologueInstrs(s, f) ==
    [k \in 1..Len(Prologue(s)) |-> Emitted(Prologue(s)[k], <<>>, <<f, 1>>, 0)]

\* lower_rt_intrinsics_impl, lines 51-91: the builder, the prologue loads and
\* the locals of one impl.
ImplStart ==
    /\ pc = "impl"
    /\ out' = out \o PrologueInstrs(stage, curf)
    /\ seen_scratch_base_ptr_load' = FALSE
    /\ found_resume' = FALSE
    /\ stack_base_offset' = <<>>
    /\ pc' = "instr"
    /\ UNCHANGED <<stage, prog, uses, run, curf, idx, firstOut>>
    /\ UNCHANGED notRTPass

\* The body of the loop for instruction `in`, found at index j of prog, with
\* `before` the output up to it and u the uses as they are.
LoopBody(in, j, before, u) ==
    LET abort == /\ pc' = "abort"
                 /\ idx' = j
                 /\ out' = before
                 /\ uses' = u
                 /\ UNCHANGED <<seen_scratch_base_ptr_load, found_resume,
                                stack_base_offset>>
    IN
    CASE in.kind = "btd_stack_push_intel" ->
           /\ out' = before \o
                (IF in.arg[1] > 0
                 THEN <<Emitted("nir_iadd_imm", <<>>, in.pos, in.id),
                        Emitted("nir_store_global",
                                child_stack_offset(stack_base_offset, in.arg[1]),
                                in.pos, in.id)>>
                 ELSE <<>>)
           /\ idx' = j + 1
           /\ pc' = "instr"
           /\ uses' = u
           /\ UNCHANGED <<seen_scratch_base_ptr_load, found_resume,
                          stack_base_offset>>
      [] in.kind = "btd_resume_intel" ->
           IF ~ResumeAsserts(in.pos[2], seen_scratch_base_ptr_load)
           THEN abort
           ELSE
           /\ found_resume' = TRUE
           /\ stack_base_offset' =
                IF in.arg[1] > 0
                THEN resume_stack_offset(stack_base_offset, in.arg[1])
                ELSE stack_base_offset
           /\ out' = before \o
                (IF in.arg[1] > 0
                 THEN <<Emitted("nir_iadd_imm", <<>>, in.pos, in.id),
                        Emitted("nir_store_global",
                                resume_stack_offset(stack_base_offset, in.arg[1]),
                                in.pos, in.id),
                        Emitted("nir_u2u64", <<>>, in.pos, in.id),
                        Emitted("nir_iadd", <<>>, in.pos, in.id)>>
                 ELSE <<>>)
           /\ idx' = j + 1
           /\ pc' = "instr"
           /\ uses' = u
           /\ UNCHANGED seen_scratch_base_ptr_load
      [] in.kind \notin RTCaseKinds ->
           \* default: continue;
           /\ out' = before \o <<in>>
           /\ idx' = j + 1
           /\ pc' = "instr"
           /\ uses' = u
           /\ UNCHANGED <<seen_scratch_base_ptr_load, found_resume,
                          stack_base_offset>>
      [] OTHER ->
           IF \/ (in.kind = "load_scratch_base_ptr"
                  /\ ~ScratchBasePtrAsserts(in.arg[1]))
              \/ (in.kind = "load_shader_record_ptr"
                  /\ ~ShaderRecordPtrAsserts(found_resume))
           THEN abort
           ELSE
           LET sysval == Sysval(in.kind, stage, stack_base_offset) IN
           /\ seen_scratch_base_ptr_load' =
                (seen_scratch_base_ptr_load \/ in.kind = "load_scratch_base_ptr")
           /\ UNCHANGED <<found_resume, stack_base_offset>>
           /\ IF sysval = UB
              THEN \* a NULL builder operand: the build crashes, or it goes
                   \* on with whatever the dereference produced
                   \/ /\ pc' = "crash"
                      /\ idx' = j
                      /\ out' = before
                      /\ uses' = u
                   \/ /\ pc' = "instr"
                      /\ idx' = j + 1
                      /\ out' = before \o Emits(Undef, in)
                      /\ uses' = [u EXCEPT ![in.id] = Undef]
              ELSE IF SysvalRewritten(sysval)
              THEN /\ pc' = "instr"
                   /\ idx' = j + 1
                   /\ out' = before \o Emits(sysval, in)
                   /\ uses' = [u EXCEPT ![in.id] = sysval]
              ELSE /\ pc' = "instr"
                   /\ idx' = j + 1
                   /\ out' = before \o <<in>>
                   /\ uses' = u

\* The block the loop is in: that of the instruction it visited last.
CurBlock ==
    IF idx > 1 /\ idx - 1 <= Len(prog)
    THEN (IF prog[idx - 1].pos[1] = curf THEN prog[idx - 1].pos[2] ELSE 1)
    ELSE 1

\* The instructions the shader may hold next, in program order: any kind of
\* the alphabet, with at most one instruction of the shader outside
\* StructuralKinds.
NextInstrs(kinds) ==
    { Instr(k, a, <<curf, b>>, Len(prog) + 1) :
        <<k, a, b>> \in
          { kab \in kinds \X (ArgsOf("btd_resume_intel") \cup
                              ArgsOf("load_scratch_base_ptr") \cup {<<>>})
                          \X Blocks :
              /\ kab[2] \in ArgsOf(kab[1])
              /\ kab[3] >= CurBlock
              /\ kab[1] \notin StructuralKinds =>
                   \A i \in 1..Len(prog) : prog[i].kind \in StructuralKinds } }

\* One iteration of nir_foreach_instr_safe in the first run: the loop meets
\* the next instruction of the shader.
LowerInstr(kinds) ==
    /\ pc = "instr"
    /\ run = 1
    /\ Len(prog) < MaxInstrs
    /\ \E in \in NextInstrs(kinds) :
         /\ prog' = Append(prog, in)
         /\ LoopBody(in, Len(prog) + 1, out, Append(uses, OwnDef(in.id)))
    /\ UNCHANGED <<stage, run, curf, firstOut>>
    /\ UNCHANGED notRTPass

\* One iteration in a second run, over the instructions the first run left:
\* the loop goes on to the next instruction a case of the switch names.
LowerInstrAgain ==
    /\ pc = "instr"
    /\ run = 2
    /\ LET j == SkipTo(prog, curf, idx) IN
       /\ j <= Len(prog)
       /\ IF j <= Len(prog) THEN prog[j].pos[1] = curf ELSE FALSE
       /\ LoopBody(prog[j], j, out \o CopyOf(prog, idx, j), uses)
    /\ UNCHANGED <<stage, prog, run, curf, firstOut>>
    /\ UNCHANGED notRTPass

\* The loops of lower_rt_intrinsics_impl end, and nir_foreach_function of
\* brw_nir_lower_rt_intrinsics goes to the next function or returns.
ImplEnd ==
    /\ pc = "instr"
    /\ LET j == IF run = 1 THEN idx ELSE SkipTo(prog, curf, idx) IN
       /\ IF j > Len(prog) THEN TRUE ELSE prog[j].pos[1] # curf
       /\ out' = out \o CopyOf(prog, idx, j)
       /\ idx' = j
    /\ IF curf + 1 \in Funcs
       THEN pc' = "impl" /\ curf' = curf + 1
       ELSE pc' = "done" /\ curf' = curf
    /\ UNCHANGED <<stage, prog, uses, run, seen_scratch_base_ptr_load,
                   found_resume, stack_base_offset, firstOut>>
    /\ UNCHANGED notRTPass

\* brw_nir_lower_rt_intrinsics is called again, on what the first call left.
SecondRun ==
    /\ pc = "done"
    /\ run = 1
    /\ firstOut' = [prog |-> prog, out |-> out, uses |-> uses]
    /\ prog' = out
    /\ out' = <<>>
    /\ run' = 2
    /\ curf' = 1
    /\ idx' = 1
    /\ pc' = "impl"
    /\ UNCHANGED <<stage, uses, seen_scratch_base_ptr_load, found_resume,
                   stack_base_offset>>
    /\ UNCHANGED notRTPass

NoFirstOut == [prog |-> <<>>, out |-> <<>>, uses |-> <<>>]

InitRTPass ==
    /\ stage \in RTStages
    /\ prog = <<>>
    /\ out = <<>>
    /\ uses = <<>>
    /\ pc = "impl"
    /\ run = 1
    /\ curf = 1
    /\ idx = 1
    /\ seen_scratch_base_ptr_load = FALSE
    /\ found_resume = FALSE
    /\ stack_base_offset = <<>>
    /\ firstOut = NoFirstOut

\* A 32-bit word, as its two 16-bit halves.
Word(hi, lo) == [hi |-> hi, lo |-> lo]

InitRTExecIdle ==
    /\ hotzone = Word(0, 0)
    /\ log = <<>>
    /\ invocations = 0

\* No compute shader is being lowered.
InitCSIdle ==
    /\ info = [stage |-> COMPUTE, local_size_variable |-> FALSE,
               derivative_group |-> "DERIVATIVE_GROUP_NONE",
               local_size |-> <<1, 1, 1>>]
    /\ csProg = <<>>
    /\ csOut = <<>>
    /\ csUses = <<>>
    /\ csPc = "idle"
    /\ local_index = 0
    /\ local_id = 0
    /\ progress = FALSE
    /\ dispatch = [size |-> <<1, 1, 1>>, simd_width |-> 8]
    /\ threads = <<>>

InitRT == InitRTPass /\ InitRTExecIdle /\ InitCSIdle /\ InitLimaIdle

NextRT ==
    \/ ImplStart
    \/ LowerInstr(RTKinds)
    \/ ImplEnd

SpecRT == InitRT /\ [][NextRT]_vars

\* The kinds of the shaders that are lowered twice: the markers and asserted
\* reads, and one read of each record the switch draws its values from.
RT2Kinds ==
    StructuralKinds \cup
    { "load_uniform", "load_ray_launch_id", "load_ray_launch_size",
      "load_ray_world_origin", "load_ray_object_origin", "load_ray_t_max",
      "load_primitive_id", "load_instance_id",
      "load_btd_local_arg_addr_intel" }

NextRT2 ==
    \/ ImplStart
    \/ LowerInstr(RT2Kinds)
    \/ ImplEnd
    \/ SecondRun
    \/ LowerInstrAgain

SpecRT2 == InitRT /\ [][NextRT2]_vars

----------------------------------------------------------------------------
(* The lowered shader at run time: what its hotzone stores write *)

\* nir_iadd_imm on a 32-bit value: the sum modulo 2^32.
iadd_imm(w, imm) ==
    LET lo == w.lo + imm
    IN  Word((w.hi + (lo \div 65536)) % 65536, lo % 65536)

\* The value of a chain of nir_iadd_imm calls on w.
RECURSIVE iadd_imms(_, _)
iadd_imms(w, imms) ==
    IF imms = <<>> THEN w
    ELSE iadd_imms(iadd_imm(w, Head(imms)), Tail(imms))

Front(q) == SubSeq(q, 1, Len(q) - 1)

\* The nir_store_global instructions of lowered function f, in order.
HotzoneStores(f) ==
    SelectSeq(out, LAMBDA x : x.pos[1] = f /\ x.kind = "nir_store_global")

\* The stores of one invocation: the function's cursor starts as channel 0
\* of the hotzone loaded at entry; each store writes channel 0 only.
RECURSIVE ExecStores(_, _, _, _)
ExecStores(stores, loaded, mem, inv) ==
    IF stores = <<>> THEN <<>>
    ELSE LET st == Head(stores)
             stored == iadd_imms(loaded, st.arg)
         IN  << [ op     |-> prog[st.by].kind,
                  size   |-> prog[st.by].arg[1],
                  inv    |-> inv,
                  cursor |-> iadd_imms(loaded, Front(st.arg)),
                  before |-> mem,
                  stored |-> stored ] >>
             \o ExecStores(Tail(stores), loaded, stored, inv)

\* One invocation of lowered function f on the current hotzone.
Invoke(f) ==
    /\ pc = "done"
    /\ run = 1
    /\ invocations < MaxInvocations
    /\ LET events == ExecStores(HotzoneStores(f), hotzone, hotzone,
                                invocations + 1)
       IN  /\ log' = log \o events
           /\ hotzone' = IF events = <<>> THEN hotzone
                         ELSE events[Len(events)].stored
    /\ invocations' = invocations + 1
    /\ UNCHANGED notRTExec

\* The kinds of the shaders whose hotzone stores are followed.
ExecKinds == MarkerKinds \cup {"alu"}

HotzoneInit == {Word(0, 0), Word(0, 64), Word(65535, 65472)}

InitRTExec ==
    /\ InitRTPass
    /\ hotzone \in HotzoneInit
    /\ log = <<>>
    /\ invocations = 0
    /\ InitCSIdle
    /\ InitLimaIdle

NextRTExec ==
    \/ ImplStart
    \/ LowerInstr(ExecKinds)
    \/ ImplEnd
    \/ \E f \in Funcs : Invoke(f)

SpecRTExec == InitRTExec /\ [][NextRTExec]_vars

----------------------------------------------------------------------------
(* brw_nir_lower_cs_intrinsics.c: the values the lowered code computes *)

KERNEL   == "MESA_SHADER_KERNEL"
FRAGMENT == "MESA_SHADER_FRAGMENT"

NONE   == "DERIVATIVE_GROUP_NONE"
QUADS  == "DERIVATIVE_GROUP_QUADS"
LINEAR == "DERIVATIVE_GROUP_LINEAR"

\* NIR's unsigned ALU operations, on values far below 2^32.
nir_iadd(a, c) == a + c
nir_imul(a, c) == a * c
nir_udiv(a, c) == IF c = 0 THEN 0 ELSE a \div c
nir_umod(a, c) == IF c = 0 THEN 0 ELSE a % c
nir_ishl(a, n) == a * (2 ^ n)
nir_ishr(a, n) == a \div (2 ^ n)

RECURSIVE nir_iand(_, _)
nir_iand(a, c) ==
    IF a = 0 \/ c = 0 THEN 0
    ELSE (a % 2) * (c % 2) + 2 * nir_iand(a \div 2, c \div 2)

RECURSIVE nir_ior(_, _)
nir_ior(a, c) ==
    IF a = 0 THEN c
    ELSE IF c = 0 THEN a
    ELSE (IF a % 2 = 1 \/ c % 2 = 1 THEN 1 ELSE 0)
         + 2 * nir_ior(a \div 2, c \div 2)

\* nir_iand(b, a, nir_imm_int(b, 0xfffffffe)): bit 0 cleared.
nir_iand_fffffffe(a) == a - (a % 2)

\* nir_iadd(b, channel, nir_imul(b, subgroup_id, simd_width))
linear_of(subgroup_id, simd_width, channel) ==
    nir_iadd(channel, nir_imul(subgroup_id, simd_width))

\* size_x, size_y (and size_z for num_subgroups): the runtime group size
\* when the size is variable, the compile-time local_size otherwise.
size_xyz(nfo, group_size) ==
    IF nfo.local_size_variable THEN group_size ELSE nfo.local_size

linear_local_id_no_umod(local_idx, size_x, size_y) ==
    << nir_umod(local_idx, size_x),
       nir_udiv(local_idx, size_x),
       nir_udiv(local_idx, nir_imul(size_x, size_y)) >>

\* id_x, id_y, id_z of the branch that does not group in quads.
linear_local_id(local_idx, size_x, size_y) ==
    << nir_umod(local_idx, size_x),
       nir_umod(nir_udiv(local_idx, size_x), size_y),
       nir_udiv(local_idx, nir_imul(size_x, size_y)) >>

quad_x_unmasked(row_pair_id) ==
    nir_ior(nir_iand(row_pair_id, 1), nir_ishr(row_pair_id, 1))

\* x of the quad branch.
quad_x(row_pair_id) ==
    nir_ior(nir_iand(row_pair_id, 1),
            nir_iand_fffffffe(nir_ishr(row_pair_id, 1)))

\* y of the quad branch.
quad_y(y_row_pairs, row_pair_id) ==
    nir_ior(nir_ishl(y_row_pairs, 1),
            nir_iand(nir_ishr(row_pair_id, 1), 1))

\* The pair one derivation computes, the local id of the quad branch taken
\* from the linear position as in the other branch.
Derive_linear_id(nfo, group_size, lin) ==
    LET size_x == size_xyz(nfo, group_size)[1]
        size_y == size_xyz(nfo, group_size)[2]
    IN  IF nfo.derivative_group # QUADS
        THEN [ local_index |-> lin,
               local_id |-> linear_local_id(lin, size_x, size_y) ]
        ELSE LET double_size_x == nir_ishl(size_x, 1)
                 row_pair_id == nir_umod(lin, double_size_x)
                 y_row_pairs == nir_udiv(lin, double_size_x)
                 x == quad_x(row_pair_id)
                 y == quad_y(y_row_pairs, row_pair_id)
             IN  [ local_index |-> nir_iadd(x, nir_imul(y, size_x)),
                   local_id |-> linear_local_id(lin, size_x, size_y) ]

\* The (local_index, local_id) pair one derivation computes for a lane.
Derive(nfo, group_size, lin) ==
    LET size_x == size_xyz(nfo, group_size)[1]
        size_y == size_xyz(nfo, group_size)[2]
    IN  IF nfo.derivative_group # QUADS
        THEN [ local_index |-> lin,
               local_id |-> linear_local_id(lin, size_x, size_y) ]
        ELSE LET double_size_x == nir_ishl(size_x, 1)
                 row_pair_id == nir_umod(lin, double_size_x)
                 y_row_pairs == nir_udiv(lin, double_size_x)
                 x == quad_x(row_pair_id)
                 y == quad_y(y_row_pairs, row_pair_id)
             IN  [ local_index |-> nir_iadd(x, nir_imul(y, size_x)),
                   local_id |-> << x, nir_umod(y, size_y),
                                   nir_udiv(y, size_y) >> ]

div_round_up_off_by_one(size, simd_width) ==
    nir_udiv(nir_iadd(size, simd_width), simd_width)

\* nir_udiv(nir_iadd_imm(nir_iadd(size, simd_width), -1), simd_width)
div_round_up(size, simd_width) ==
    nir_udiv(nir_iadd(nir_iadd(size, simd_width), -1), simd_width)

\* The value a lowered load_num_subgroups computes.
num_subgroups(nfo, group_size, simd_width) ==
    LET sz == size_xyz(nfo, group_size)
    IN  div_round_up(nir_imul(nir_imul(sz[1], sz[2]), sz[3]), simd_width)

----------------------------------------------------------------------------
(* brw_nir_lower_cs_intrinsics.c: the pass *)

CSStages == {COMPUTE, KERNEL, FRAGMENT}

DerivativeGroups == {NONE, QUADS, LINEAR}

NarrowKinds == {"load_local_group_size", "load_work_group_id",
                "load_num_work_groups"}

LocalKinds == {"load_local_invocation_index", "load_local_invocation_id"}

CSCaseKinds == NarrowKinds \cup LocalKinds \cup {"load_num_subgroups"}

\* An intrinsic and an instruction the switch does not name.
CSOtherKinds == {"load_subgroup_id", "alu"}

CSKinds == CSCaseKinds \cup CSOtherKinds

BitSizes == {32, 64}

CSInstr(kind, bits, pos, id) ==
    [kind |-> kind, bits |-> bits, pos |-> pos, id |-> id, by |-> 0]

\* An instruction the builder inserts while lowering instruction `by`.
CSEmitted(kind, pos, by) ==
    [kind |-> kind, bits |-> 32, pos |-> pos, id |-> 0, by |-> by]

\* What the consumers of a def read: the def itself ("ssa"), the widened
\* narrowed def, or a value computed by derivation `deriv`.
CSVal(op, deriv, wide) == [op |-> op, deriv |-> deriv, wide |-> wide]

CSOwnDef(i) == CSVal("ssa", i, FALSE)

CSAsserts_sizes_always(nfo) ==
    /\ nfo.stage \in {COMPUTE, KERNEL}
    /\ nfo.derivative_group = QUADS =>
         nfo.local_size[1] % 2 = 0 /\ nfo.local_size[2] % 2 = 0
    /\ nfo.derivative_group = LINEAR =>
         (nfo.local_size[1] * nfo.local_size[2] * nfo.local_size[3]) % 4 = 0

\* The preconditions brw_nir_lower_cs_intrinsics asserts.
CSAsserts(nfo) ==
    /\ nfo.stage \in {COMPUTE, KERNEL}
    /\ ~nfo.local_size_variable =>
         /\ nfo.derivative_group = QUADS =>
              nfo.local_size[1] % 2 = 0 /\ nfo.local_size[2] % 2 = 0
         /\ nfo.derivative_group = LINEAR =>
              (nfo.local_size[1] * nfo.local_size[2] * nfo.local_size[3]) % 4 = 0

SizeInstrs(nfo, channels) ==
    IF nfo.local_size_variable
    THEN <<"nir_load_local_group_size">> \o [k \in 1..channels |-> "nir_channel"]
    ELSE IF channels = 2 THEN <<"nir_imm_int", "nir_imm_int">>
    ELSE <<"nir_imm_int">>

\* The builder calls of one (local_index, local_id) derivation.
DerivationInstrs(nfo) ==
    <<"nir_load_subgroup_id", "nir_load_simd_width_intel", "nir_imul",
      "nir_load_subgroup_invocation", "nir_iadd">>
    \o SizeInstrs(nfo, 2)
    \o (IF nfo.derivative_group # QUADS
        THEN <<"nir_umod", "nir_udiv", "nir_umod", "nir_imul", "nir_udiv",
               "nir_vec3">>
        ELSE <<"nir_imm_int", "nir_ishl", "nir_umod", "nir_udiv",
               "nir_iand", "nir_ishr", "nir_imm_int", "nir_iand", "nir_ior",
               "nir_ishl", "nir_ishr", "nir_iand", "nir_ior",
               "nir_umod", "nir_udiv", "nir_vec3", "nir_imul", "nir_iadd">>)

\* The builder calls of the load_num_subgroups case.
NumSubgroupsInstrs(nfo) ==
    (IF nfo.local_size_variable
     THEN SizeInstrs(nfo, 3) \o <<"nir_imul", "nir_imul">>
     ELSE SizeInstrs(nfo, 3))
    \o <<"nir_load_simd_width_intel", "nir_iadd", "nir_iadd_imm", "nir_udiv">>

EmittedAt(kinds, in) ==
    [k \in 1..Len(kinds) |-> CSEmitted(kinds[k], in.pos, in.id)]

\* if (intrinsic->dest.ssa.bit_size == 64) sysval = nir_u2u64(b, sysval);
Widen(in) == IF in.bits = 64 THEN <<CSEmitted("nir_u2u64", in.pos, in.id)>>
             ELSE <<>>

BlockCache_kept(cached, sameBlock) == cached

\* local_index and local_id start NULL in every block.
BlockCache(cached, sameBlock) == IF sameBlock THEN cached ELSE 0

\* The body of nir_foreach_instr_safe for instruction `in`, with li and lid
\* the block's cached defs.
CSLoopBody(in, li, lid) ==
    CASE in.kind \in NarrowKinds ->
           /\ IF in.bits = 64
              THEN /\ csOut' = csOut \o <<[in EXCEPT !.bits = 32]>> \o Widen(in)
                   /\ csUses' = Append(csUses, CSVal("u2u64", in.id, TRUE))
              ELSE /\ csOut' = Append(csOut, in)
                   /\ csUses' = Append(csUses, CSOwnDef(in.id))
           /\ local_index' = li
           /\ local_id' = lid
           /\ progress' = progress
      [] in.kind \in LocalKinds ->
           LET first == li = 0
               index == IF first THEN in.id ELSE li
               id == IF first THEN in.id ELSE lid
           IN  /\ local_index' = index
               /\ local_id' = id
               /\ csOut' = csOut
                    \o (IF first THEN EmittedAt(DerivationInstrs(info), in)
                        ELSE <<>>)
                    \o Widen(in)
               /\ csUses' = Append(csUses,
                    IF in.kind = "load_local_invocation_id"
                    THEN CSVal("local_id", id, in.bits = 64)
                    ELSE CSVal("local_index", index, in.bits = 64))
               /\ progress' = TRUE
      [] in.kind = "load_num_subgroups" ->
           /\ csOut' = csOut \o EmittedAt(NumSubgroupsInstrs(info), in)
                             \o Widen(in)
           /\ csUses' = Append(csUses,
                               CSVal("num_subgroups", in.id, in.bits = 64))
           /\ local_index' = li
           /\ local_id' = lid
           /\ progress' = TRUE
      [] OTHER ->
           /\ csOut' = Append(csOut, in)
           /\ csUses' = Append(csUses, CSOwnDef(in.id))
           /\ local_index' = li
           /\ local_id' = lid
           /\ progress' = progress

\* brw_nir_lower_cs_intrinsics up to its loop over the functions.
CSStart ==
    /\ csPc = "start"
    /\ csPc' = IF CSAsserts(info) THEN "instr" ELSE "abort"
    /\ UNCHANGED <<info, csProg, csOut, csUses, local_index, local_id, progress>>
    /\ UNCHANGED csExecVars
    /\ UNCHANGED notCS

PosLeq(p, q) == p[1] < q[1] \/ (p[1] = q[1] /\ p[2] <= q[2])

\* One iteration of nir_foreach_instr_safe: the loop meets the next
\* instruction of the shader, in this block or in a later one.
CSLowerInstr(kinds, bitsizes, positions) ==
    /\ csPc = "instr"
    /\ Len(csProg) < MaxInstrs
    /\ \E k \in kinds, bs \in bitsizes, p \in positions :
         LET n == Len(csProg)
             sameBlock == IF n = 0 THEN FALSE ELSE csProg[n].pos = p
             in == CSInstr(k, bs, p, n + 1)
         IN  /\ IF n = 0 THEN TRUE ELSE PosLeq(csProg[n].pos, p)
             /\ csProg' = Append(csProg, in)
             /\ CSLoopBody(in, BlockCache(local_index, sameBlock),
                               BlockCache(local_id, sameBlock))
    /\ UNCHANGED <<info, csPc>>
    /\ UNCHANGED csExecVars
    /\ UNCHANGED notCS

\* The last function is done: return state.progress.
CSEnd ==
    /\ csPc = "instr"
    /\ csPc' = "done"
    /\ UNCHANGED <<info, csProg, csOut, csUses, local_index, local_id, progress>>
    /\ UNCHANGED csExecVars
    /\ UNCHANGED notCS

\* No ray-tracing shader is being lowered.
InitRTIdle ==
    /\ stage = COMPUTE
    /\ prog = <<>>
    /\ out = <<>>
    /\ uses = <<>>
    /\ pc = "idle"
    /\ run = 1
    /\ curf = 1
    /\ idx = 1
    /\ seen_scratch_base_ptr_load = FALSE
    /\ found_resume = FALSE
    /\ stack_base_offset = <<>>
    /\ firstOut = NoFirstOut
    /\ InitRTExecIdle

\* Workgroup sizes: every size up to MaxDim in each dimension, and the
\* sizes of the worked cases.
Sizes ==
    {<<x, y, z>> : x \in 1..MaxDim, y \in 1..MaxDim, z \in 1..MaxDim}
    \cup {<<4, 4, 1>>, <<7, 5, 2>>, <<4, 2, 2>>}

\* Sizes that pass or fail each of the asserted size constraints.
PassSizes == {<<1, 1, 1>>, <<2, 2, 1>>, <<1, 2, 2>>}

SimdWidths == {8, 16, 32}

\* info.cs of a shader: local_size is zero when the size is variable.
Infos(stages, sizes) ==
    { i \in [ stage : stages, local_size_variable : BOOLEAN,
              derivative_group : DerivativeGroups,
              local_size : sizes \cup {<<0, 0, 0>>} ] :
        i.local_size_variable <=> i.local_size = <<0, 0, 0>> }

\* A variable-size shader whose local_size, which the pass does not read,
\* is not zero.
StaleSizeInfos(stages, sizes) ==
    [ stage : stages, local_size_variable : {TRUE},
      derivative_group : DerivativeGroups, local_size : sizes ]

InitCSPass(infos) ==
    /\ info \in infos
    /\ csProg = <<>>
    /\ csOut = <<>>
    /\ csUses = <<>>
    /\ csPc = "start"
    /\ local_index = 0
    /\ local_id = 0
    /\ progress = FALSE

InitCS ==
    /\ InitRTIdle
    /\ InitLimaIdle
    /\ InitCSPass(Infos(CSStages, PassSizes)
                  \cup StaleSizeInfos(CSStages, {<<1, 1, 1>>}))
    /\ dispatch = [size |-> <<1, 1, 1>>, simd_width |-> 8]
    /\ threads = <<>>

NextCS ==
    \/ CSStart
    \/ CSLowerInstr(CSKinds, BitSizes, Positions)
    \/ CSEnd

SpecCS == InitCS /\ [][NextCS]_vars

----------------------------------------------------------------------------
(* The lowered compute shader at run time *)

\* What a read lowered to u computes in lane `channel` of subgroup g.
Eval(u, g, channel) ==
    LET lin == linear_of(g, dispatch.simd_width, channel)
    IN  CASE u.op = "local_index" ->
               <<Derive(info, dispatch.size, lin).local_index>>
          [] u.op = "local_id" -> Derive(info, dispatch.size, lin).local_id
          [] u.op = "num_subgroups" ->
               <<num_subgroups(info, dispatch.size, dispatch.simd_width)>>
          [] OTHER -> <<>>

Total(size) == size[1] * size[2] * size[3]

\* The next subgroup of the workgroup runs the lowered shader, all its
\* lanes together.
RunSubgroup ==
    /\ csPc = "done"
    /\ Len(threads) * dispatch.simd_width < Total(dispatch.size)
    /\ threads' = Append(threads,
          [channel \in 0..(dispatch.simd_width - 1) |->
              [i \in 1..Len(csUses) |-> Eval(csUses[i], Len(threads), channel)]])
    /\ UNCHANGED dispatch
    /\ UNCHANGED csPassVars
    /\ UNCHANGED notCS

\* The reads the shaders that are run are made of.
RunKinds == LocalKinds \cup {"load_num_subgroups"}

InitCSRun ==
    /\ InitRTIdle
    /\ InitLimaIdle
    /\ InitCSPass(Infos({COMPUTE}, Sizes))
    /\ dispatch \in [size : Sizes, simd_width : SimdWidths]
    /\ ~info.local_size_variable => dispatch.size = info.local_size
    /\ threads = <<>>

NextCSRun ==
    \/ CSStart
    \/ CSLowerInstr(RunKinds, {32}, {<<1, 1>>})
    \/ CSEnd
    \/ RunSubgroup

SpecCSRun == InitCSRun /\ [][NextCSRun]_vars

----------------------------------------------------------------------------
(* lima_draw.c: the context, the jobs and the scissor *)

\* The most calls (state setters, clears, draws) made on one context.
MaxCalls == 3

\* The largest framebuffer width and height.
MaxCoord == 2

\* No resource: a NULL surface, a NULL index buffer.
NoRes == "NULL"

\* PIPE_CLEAR_COLOR0, PIPE_CLEAR_DEPTH, PIPE_CLEAR_STENCIL as a set of bits.
Buffers == {"COLOR0", "DEPTH", "STENCIL"}

DepthStencil == {"DEPTH", "STENCIL"}

\* The LIMA_CONTEXT_DIRTY_* bits the draw code reads or writes.
DirtyFlags == {"CONST_BUFF", "VIEWPORT", "COMPILED_VS", "SCISSOR", "CLEAR"}

\* MAX2 and MIN2 of util/macros.h, as lima_draw.c uses them.
MAX2(a, b) == IF a > b THEN a ELSE b

MIN2(a, b) == IF a < b THEN a ELSE b

\* A struct pipe_scissor_state: a rectangle.
Rect(minx, maxx, miny, maxy) ==
    [minx |-> minx, maxx |-> maxx, miny |-> miny, maxy |-> maxy]

\* ctx->viewport, the four edges the draw code reads.
Viewport(left, right, bottom, top) ==
    [left |-> left, right |-> right, bottom |-> bottom, top |-> top]

\* A value stored in a field of struct pipe_scissor_state, which is unsigned
\* and 16 bits wide (lima_damage_rect_union takes the fields as unsigned).
u16(x) == x % 65536

\* ctx->framebuffer: base.width, base.height, base.cbufs[0] (NoRes when
\* nr_cbufs is 0) and base.zsbuf, and the key lima_job_get finds its job by.
Framebuffer(key, width, height, cbuf, zsbuf) ==
    [key |-> key, width |-> width, height |-> height,
     cbuf |-> cbuf, zsbuf |-> zsbuf]

\* The scissor before the viewport is applied: the one of the state when the
\* rasterizer enables scissoring, the whole framebuffer otherwise.
BaseScissor(c) ==
    IF c.scissor_enabled
    THEN c.scissor
    ELSE Rect(0, c.framebuffer.width, 0, c.framebuffer.height)

\* One axis of lima_clip_scissor_to_viewport: min and max of the scissor,
\* low and high edge of the viewport, the size of the framebuffer.
ClipAxis_signed(min, max, low, high, size) ==
    LET viewport_low == MAX2(low, 0)
        min1 == MAX2(min, viewport_low)
        viewport_high == MIN2(high, size)
        max1 == MIN2(max, viewport_high)
    IN  <<IF min1 > max1 THEN max1 ELSE min1, max1>>

ClipAxis(min, max, low, high, size) ==
    LET viewport_low == MAX2(low, 0)
        min1 == u16(MAX2(min, viewport_low))
        viewport_high == MIN2(high, size)
        max1 == u16(MIN2(max, viewport_high))
    IN  <<IF min1 > max1 THEN max1 ELSE min1, max1>>

\* ctx->clipped_scissor as lima_clip_scissor_to_viewport leaves it.
lima_clip_scissor_to_viewport(c) ==
    LET s == BaseScissor(c)
        x == ClipAxis(s.minx, s.maxx, c.viewport.left, c.viewport.right,
                      c.framebuffer.width)
        y == ClipAxis(s.miny, s.maxy, c.viewport.bottom, c.viewport.top,
                      c.framebuffer.height)
    IN  Rect(x[1], x[2], y[1], y[2])

lima_is_scissor_zero_x_only(c) == c.clipped_scissor.minx = c.clipped_scissor.maxx

lima_is_scissor_zero(c) ==
    \/ c.clipped_scissor.minx = c.clipped_scissor.maxx
    \/ c.clipped_scissor.miny = c.clipped_scissor.maxy

\* lima_damage_rect_union with an assignment for each MIN2 and MAX2.
lima_damage_rect_assign(rect, minx, maxx, miny, maxy) ==
    Rect(minx, maxx, miny, maxy)

lima_damage_rect_union(rect, minx, maxx, miny, maxy) ==
    Rect(MIN2(rect.minx, minx), MAX2(rect.maxx, maxx),
         MIN2(rect.miny, miny), MAX2(rect.maxy, maxy))

----------------------------------------------------------------------------
(* lima_draw.c: jobs, as the draw code uses them *)

\* The state a call works on, and what it has done so far.
World ==
    [ctx |-> ctx, jobs |-> jobs, write_jobs |-> write_jobs,
     submitted |-> submitted, index_cache |-> index_cache, trace |-> <<>>]

Emit(w, e) == [w EXCEPT !.trace = Append(@, e)]

\* The key of the job of the bound framebuffer.
Key(w) == w.ctx.framebuffer.key

\* A job as lima_job_get creates it: nothing recorded, an empty damage
\* rectangle.  ops lists the clears and draws recorded in it, in order, and
\* damaged the rectangles they passed to lima_damage_rect_union.
NewJob ==
    [resolve |-> {}, bos |-> {}, vs_cmd |-> 0, plbu_cmd |-> 0,
     damage_rect |-> Rect(65535, 0, 65535, 0), clear |-> [buffers |-> {}],
     pp_max_stack_size |-> 0, ops |-> <<>>, damaged |-> <<>>]

\* lima_job_get: the job of the bound framebuffer, created when there is none.
lima_job_get(w) ==
    IF Key(w) \in DOMAIN w.jobs
    THEN w
    ELSE [w EXCEPT !.jobs = (Key(w) :> NewJob) @@ @]

\* The job lima_job_get returned.
Job(w) == w.jobs[Key(w)]

\* lima_job_has_draw_pending: the job holds primitive-list-builder commands.
lima_job_has_draw_pending(job) == job.plbu_cmd > 0

\* lima_do_job: the job is submitted and freed; no resource names it as its
\* writer any more.
lima_do_job(w, key) ==
    Emit([w EXCEPT !.submitted = Append(@, w.jobs[key]),
                   !.jobs = [k \in DOMAIN w.jobs \ {key} |-> w.jobs[k]],
                   !.write_jobs = [r \in {q \in DOMAIN w.write_jobs :
                                             w.write_jobs[q] # key}
                                     |-> w.write_jobs[r]]],
         <<"lima_do_job", key>>)

\* The jobs other than the bound framebuffer's that hold bo, for any access.
Accessing(w, bo) ==
    { k \in DOMAIN w.jobs \ {Key(w)} :
        \E a \in w.jobs[k].bos : a[2] = bo }

RECURSIVE FlushAll(_, _)
FlushAll(w, keys) ==
    IF keys = {}
    THEN w
    ELSE LET k == CHOOSE k \in keys : \A j \in keys : k <= j
         IN  FlushAll(lima_do_job(w, k), keys \ {k})

\* lima_flush_job_accessing_bo: every other job that accesses bo is submitted.
lima_flush_job_accessing_bo(w, bo) ==
    FlushAll(Emit(w, <<"lima_flush_job_accessing_bo", bo>>), Accessing(w, bo))

\* lima_job_add_bo: the job of the bound framebuffer holds bo for this
\* access by this pipe (LIMA_PIPE_GP, LIMA_PIPE_PP).
lima_job_add_bo(w, pipe, bo, access) ==
    Emit([w EXCEPT !.jobs[Key(w)].bos = @ \cup {<<pipe, bo, access>>}],
         <<"lima_job_add_bo", pipe, bo, access>>)

\* _mesa_hash_table_insert(ctx->write_jobs, &res->base, job)
write_jobs_insert(w, res) ==
    Emit([w EXCEPT !.write_jobs =
              (res :> Key(w)) @@ [r \in DOMAIN @ \ {res} |-> @[r]]],
         <<"write_jobs_insert", res>>)

\* The body of either if of lima_update_job_wb, the flush left out.
WriteTarget_unflushed(w, res) ==
    lima_job_add_bo(write_jobs_insert(w, res), "PP", res, "WRITE")

\* The body of either if of lima_update_job_wb: res becomes a write target
\* of the job.
WriteTarget(w, res) ==
    lima_job_add_bo(
        write_jobs_insert(lima_flush_job_accessing_bo(w, res), res),
        "PP", res, "WRITE")

lima_update_job_wb(w0, buffers) ==
    LET w == lima_job_get(w0)
        fb == w.ctx.framebuffer
        w1 == IF /\ fb.cbuf # NoRes
                 /\ "COLOR0" \in buffers
                 /\ "COLOR0" \notin Job(w).resolve
              THEN WriteTarget(w, fb.cbuf)
              ELSE w
        w2 == IF /\ fb.zsbuf # NoRes
                 /\ buffers \cap DepthStencil # {}
                 /\ Job(w1).resolve \cap DepthStencil = {}
              THEN WriteTarget(w1, fb.zsbuf)
              ELSE w1
    IN  Emit([w2 EXCEPT !.jobs[Key(w2)].resolve = @ \cup buffers],
             <<"resolve", buffers>>)

\* lima_clear up to the fetch of the job the clear is recorded in, the test
\* for a pending draw left out.
ClearJob_never_submits(w0) == lima_job_get(w0)

\* lima_clear up to the fetch of the job the clear is recorded in.
ClearJob(w0) ==
    LET w == lima_job_get(w0)
    IN  IF lima_job_has_draw_pending(Job(w))
        THEN lima_job_get(lima_do_job(w, Key(w)))
        ELSE w

\* lima_clear.  The packed clear colour, depth and stencil and the reload
\* bits of the surfaces are left out: the draw code never reads them.
lima_clear_in(w0, buffers) ==
    LET w1 == lima_update_job_wb(ClearJob(w0), buffers)
        fb == w1.ctx.framebuffer
    IN  Emit([w1 EXCEPT
                !.jobs[Key(w1)].clear.buffers = buffers,
                !.jobs[Key(w1)].ops = Append(@, "clear"),
                !.jobs[Key(w1)].damaged =
                    Append(@, Rect(0, fb.width, 0, fb.height)),
                !.ctx.dirty = @ \cup {"CLEAR"},
                !.jobs[Key(w1)].damage_rect =
                    lima_damage_rect_union(@, 0, fb.width, 0, fb.height)],
             <<"clear", buffers>>)

----------------------------------------------------------------------------
(* lima_draw.c: lima_draw_vbo *)

\* static const uint32_t max_verts of lima_draw_vbo_count.
max_verts == 65535

\* The primitive modes drawn: the least count and the increment of each.
Modes == {"POINTS", "TRIANGLES"}

PrimMin(mode) == IF mode = "TRIANGLES" THEN 3 ELSE 1

PrimIncr(mode) == IF mode = "TRIANGLES" THEN 3 ELSE 1

\* u_trim_pipe_prim: whether mode and count match, and the count trimmed.
u_trim_pipe_prim(mode, count) ==
    IF count >= PrimMin(mode)
    THEN <<TRUE, count - (count % PrimIncr(mode))>>
    ELSE <<FALSE, 0>>

\* u_split_draw: the count and the step of the next sub-draw.
u_split_draw(mode, max, count) ==
    IF count <= max
    THEN <<count, count>>
    ELSE <<max - (max % PrimIncr(mode)), max - (max % PrimIncr(mode))>>

\* A struct pipe_draw_info, as far as the draw code reads it.
DrawInfo(mode, index_size, has_user_indices, index_bounds_valid,
         min_index, max_index, resource, user_indices) ==
    [mode |-> mode, index_size |-> index_size,
     has_user_indices |-> has_user_indices,
     index_bounds_valid |-> index_bounds_valid,
     min_index |-> min_index, max_index |-> max_index,
     resource |-> resource, user_indices |-> user_indices]

\* A struct pipe_draw_start_count.
StartCount(start, count) == [start |-> start, count |-> count]

\* The least and the greatest of indices start .. start + count - 1 of data
\* (held from index 0 on), as u_vbuf_get_minmax_index finds them.
Range(data, draw) ==
    { data[i + 1] : i \in draw.start .. (draw.start + draw.count - 1) }

Least(S) == CHOOSE x \in S : \A y \in S : x <= y

Greatest(S) == CHOOSE x \in S : \A y \in S : x >= y

u_vbuf_get_minmax_index(data, draw) ==
    <<Least(Range(data, draw)), Greatest(Range(data, draw))>>

\* panfrost_minmax_cache_get: the entry of (start, count), if there is one.
panfrost_minmax_cache_get(cache, draw) ==
    { e \in cache : e.start = draw.start /\ e.count = draw.count }

panfrost_minmax_cache_add(cache, draw, min, max) ==
    cache \cup {[start |-> draw.start, count |-> draw.count,
                 min |-> min, max |-> max]}

\* The buffers a draw writes: lima_draw_vbo_update, the computation of
\* buffers.
DrawBuffers(c) ==
    (IF c.framebuffer.zsbuf # NoRes
     THEN (IF c.zsa.depth_enabled THEN {"DEPTH"} ELSE {}) \cup
          (IF c.zsa.stencil_enabled THEN {"STENCIL"} ELSE {})
     ELSE {}) \cup
    (IF c.framebuffer.cbuf # NoRes THEN {"COLOR0"} ELSE {})

\* The name of the n-th vertex-output buffer lima_update_varying allocates.
GpOutput(n) == "gp_output" \o ToString(n)

lima_update_gp_attribute_info(w, dinfo, draw) ==
    LET start == IF dinfo.index_size # 0 THEN w.ctx.min_index ELSE draw.start
    IN  Emit(lima_job_add_bo(lima_job_get(w), "GP", "vertex_buffer", "READ"),
             <<"lima_update_gp_attribute_info", start>>)

lima_update_gp_uniform(w) == Emit(w, <<"lima_update_gp_uniform">>)

lima_update_pp_uniform(w) == Emit(w, <<"lima_update_pp_uniform">>)

lima_update_textures(w) == Emit(w, <<"lima_update_textures">>)

lima_pack_render_state(w) == Emit(w, <<"lima_pack_render_state">>)

\* The vertices the vertex shader runs on: num of lima_update_varying and
\* of lima_pack_vs_cmd.
NumVertices(c, dinfo, draw) ==
    IF dinfo.index_size # 0
    THEN c.max_index - c.min_index + 1
    ELSE draw.count

\* align of u_math.h: value rounded up to a multiple of alignment.
align(value, alignment) == ((value + alignment - 1) \div alignment) * alignment

\* A struct lima_vs_shader_state, as far as lima_update_varying reads and
\* writes it: sizes[i] is the component_size of output i (outputs are numbered
\* from 0, as in the code), point_size_idx is -1 when there is no point size.
VertexShader(sizes, gl_pos_idx, point_size_idx) ==
    [num_outputs |-> Len(sizes),
     varying |-> [i \in 0..(Len(sizes) - 1) |->
                    [component_size |-> sizes[i + 1], offset |-> 0]],
     gl_pos_idx |-> gl_pos_idx, point_size_idx |-> point_size_idx,
     varying_stride |-> 0]

\* The first loop of lima_update_varying from output i on, without the
\* alignment of the varyings of 4-byte components.
RECURSIVE LayOut_packed(_, _, _)
LayOut_packed(vs, i, offset) ==
    IF i >= vs.num_outputs
    THEN [vs EXCEPT !.varying_stride = align(offset, 16)]
    ELSE IF i = vs.gl_pos_idx \/ i = vs.point_size_idx
    THEN LayOut_packed(vs, i + 1, offset)
    ELSE LayOut_packed([vs EXCEPT !.varying[i].offset = offset], i + 1,
                       offset + vs.varying[i].component_size * 4)

\* The first loop of lima_update_varying from output i on, and the stride
\* set after it: offset is the end of the varyings laid out so far.
RECURSIVE LayOut(_, _, _)
LayOut(vs, i, offset) ==
    IF i >= vs.num_outputs
    THEN [vs EXCEPT !.varying_stride = align(offset, 16)]
    ELSE IF i = vs.gl_pos_idx \/ i = vs.point_size_idx
    THEN LayOut(vs, i + 1, offset)
    ELSE LET v == vs.varying[i]
             size == v.component_size * 4
             at == IF v.component_size = 4 THEN align(offset, 16) ELSE offset
         IN  LayOut([vs EXCEPT !.varying[i].offset = at], i + 1, at + size)

\* lima_update_varying without the second lima_job_add_bo: the output buffer
\* is not registered for the read of the fragment pipe.
lima_update_varying_gp_only(w0, dinfo, draw) ==
    LET w == lima_job_get(w0)
        bo == GpOutput(w.ctx.gp_outputs)
        w1 == [w EXCEPT !.ctx.vs = LayOut(@, 0, 0),
                        !.ctx.gp_output = bo, !.ctx.gp_outputs = @ + 1]
        w2 == lima_job_add_bo(w1, "GP", bo, "WRITE")
    IN  Emit(w2, <<"lima_update_varying", NumVertices(w.ctx, dinfo, draw)>>)

lima_update_varying(w0, dinfo, draw) ==
    LET w == lima_job_get(w0)
        bo == GpOutput(w.ctx.gp_outputs)
        w1 == [w EXCEPT !.ctx.vs = LayOut(@, 0, 0),
                        !.ctx.gp_output = bo, !.ctx.gp_outputs = @ + 1]
        w2 == lima_job_add_bo(w1, "GP", bo, "WRITE")
        w3 == lima_job_add_bo(w2, "PP", bo, "READ")
    IN  Emit(w3, <<"lima_update_varying", NumVertices(w.ctx, dinfo, draw)>>)

lima_pack_vs_cmd(w0, dinfo, draw) ==
    LET w == lima_job_get(w0)
    IN  Emit([w EXCEPT !.jobs[Key(w)].vs_cmd = @ + 1],
             <<"lima_pack_vs_cmd", NumVertices(w.ctx, dinfo, draw)>>)

\* lima_pack_plbu_cmd: its assertion on the clipped scissor, the scissor
\* command and the damage rectangle.
lima_pack_plbu_cmd(w0, dinfo, draw) ==
    LET w == lima_job_get(w0)
        cscissor == w.ctx.clipped_scissor
        w1 == Emit(w, <<"assert", /\ cscissor.minx < cscissor.maxx
                                  /\ cscissor.miny < cscissor.maxy>>)
    IN  Emit([w1 EXCEPT
                !.jobs[Key(w)].plbu_cmd = @ + 1,
                !.jobs[Key(w)].ops = Append(@, "draw"),
                !.jobs[Key(w)].damaged = Append(@, cscissor),
                !.jobs[Key(w)].damage_rect =
                    lima_damage_rect_union(@, cscissor.minx, cscissor.maxx,
                                           cscissor.miny, cscissor.maxy)],
             <<"lima_pack_plbu_cmd", cscissor,
               IF dinfo.index_size # 0 THEN w.ctx.min_index ELSE draw.start,
               draw.count>>)

\* The steps of lima_draw_vbo_update from lima_update_gp_attribute_info to
\* lima_pack_plbu_cmd, the fragment uniforms written right after the vertex
\* uniforms.
PackSteps_uniforms_together(w0, dinfo, draw) ==
    LET c == w0.ctx
        w1 == lima_update_gp_attribute_info(w0, dinfo, draw)
        gp == \/ ("CONST_BUFF" \in c.dirty /\ c.const_buffer_dirty.VERTEX)
              \/ "VIEWPORT" \in c.dirty
              \/ "COMPILED_VS" \in c.dirty
        w2 == IF gp
              THEN [lima_update_gp_uniform(w1) EXCEPT
                       !.ctx.const_buffer_dirty.VERTEX = FALSE]
              ELSE w1
        pp == "CONST_BUFF" \in c.dirty /\ c.const_buffer_dirty.FRAGMENT
        w3 == IF pp
              THEN [lima_update_pp_uniform(w2) EXCEPT
                       !.ctx.const_buffer_dirty.FRAGMENT = FALSE]
              ELSE w2
        w4 == lima_pack_vs_cmd(lima_update_varying(w3, dinfo, draw), dinfo, draw)
        w5 == lima_pack_render_state(lima_update_textures(w4))
    IN  lima_pack_plbu_cmd(w5, dinfo, draw)

\* The steps of lima_draw_vbo_update from lima_update_gp_attribute_info to
\* lima_pack_plbu_cmd.
PackSteps(w0, dinfo, draw) ==
    LET c == w0.ctx
        w1 == lima_update_gp_attribute_info(w0, dinfo, draw)
        gp == \/ ("CONST_BUFF" \in c.dirty /\ c.const_buffer_dirty.VERTEX)
              \/ "VIEWPORT" \in c.dirty
              \/ "COMPILED_VS" \in c.dirty
        w2 == IF gp
              THEN [lima_update_gp_uniform(w1) EXCEPT
                       !.ctx.const_buffer_dirty.VERTEX = FALSE]
              ELSE w1
        w3 == lima_pack_vs_cmd(lima_update_varying(w2, dinfo, draw), dinfo, draw)
        pp == "CONST_BUFF" \in c.dirty /\ c.const_buffer_dirty.FRAGMENT
        w4 == IF pp
              THEN [lima_update_pp_uniform(w3) EXCEPT
                       !.ctx.const_buffer_dirty.FRAGMENT = FALSE]
              ELSE w3
        w5 == lima_pack_render_state(lima_update_textures(w4))
    IN  lima_pack_plbu_cmd(w5, dinfo, draw)

\* lima_draw_vbo_update without its last statement, ctx->dirty = 0.
lima_draw_vbo_update_keeps_dirty(w0, dinfo, draw) ==
    LET w1 == lima_update_job_wb(w0, DrawBuffers(w0.ctx))
        w2 == PackSteps(w1, dinfo, draw)
    IN  [w2 EXCEPT !.ctx.gp_output = NoRes]

lima_draw_vbo_update(w0, dinfo, draw) ==
    LET w1 == lima_update_job_wb(w0, DrawBuffers(w0.ctx))
        w2 == PackSteps(w1, dinfo, draw)
    IN  [w2 EXCEPT !.ctx.gp_output = NoRes, !.ctx.dirty = {}]

\* Whether a draw looks its index range up in the cache of its resource.
UsesCache_always(dinfo) == TRUE

UsesCache(dinfo) == ~dinfo.has_user_indices

\* Whether a scanned index range is added to the cache of its resource.
CachesScan_never(dinfo) == FALSE

CachesScan(dinfo) == ~dinfo.has_user_indices

\* The buffer util_upload_index_buffer uploads user indices to.
IndexUpload == "index_upload"

lima_draw_vbo_indexed(w0, dinfo, draw) ==
    LET w == lima_job_get(w0)
        wv == IF dinfo.index_bounds_valid
              THEN [w EXCEPT !.ctx.min_index = dinfo.min_index,
                             !.ctx.max_index = dinfo.max_index]
              ELSE w
        res == IF dinfo.has_user_indices THEN IndexUpload ELSE dinfo.resource
        data == IF dinfo.has_user_indices
                THEN dinfo.user_indices
                ELSE index_data[dinfo.resource]
        hit == panfrost_minmax_cache_get(wv.index_cache[res], draw)
        wr == IF ~UsesCache(dinfo)
              THEN Emit([wv EXCEPT !.ctx.index_res = res],
                        <<"util_upload_index_buffer">>)
              ELSE Emit([wv EXCEPT
                           !.ctx.index_res = res,
                           !.ctx.min_index =
                               IF hit # {}
                               THEN (CHOOSE e \in hit : TRUE).min ELSE @,
                           !.ctx.max_index =
                               IF hit # {}
                               THEN (CHOOSE e \in hit : TRUE).max ELSE @],
                        <<"panfrost_minmax_cache_get", res, hit # {}>>)
        needs_indices == IF ~UsesCache(dinfo)
                         THEN ~dinfo.index_bounds_valid
                         ELSE hit = {}
        minmax == u_vbuf_get_minmax_index(data, draw)
        ws == IF needs_indices
              THEN Emit([wr EXCEPT !.ctx.min_index = minmax[1],
                                   !.ctx.max_index = minmax[2]],
                        <<"u_vbuf_get_minmax_index", minmax[1], minmax[2]>>)
              ELSE wr
        wc == IF needs_indices /\ CachesScan(dinfo)
              THEN Emit([ws EXCEPT !.index_cache[res] =
                            panfrost_minmax_cache_add(@, draw,
                                                      minmax[1], minmax[2])],
                        <<"panfrost_minmax_cache_add", res>>)
              ELSE ws
        wb == lima_job_add_bo(lima_job_add_bo(wc, "GP", res, "READ"),
                              "PP", res, "READ")
    IN  lima_draw_vbo_update(wb, dinfo, draw)

\* lima_draw_vbo_count without its loop: the whole count in one draw.
lima_draw_vbo_count_unsplit(w, dinfo, start, count) ==
    IF count = 0
    THEN w
    ELSE lima_draw_vbo_update(w, dinfo, StartCount(start, count))

\* The loop of lima_draw_vbo_count.
RECURSIVE lima_draw_vbo_count(_, _, _, _)
lima_draw_vbo_count(w, dinfo, start, count) ==
    IF count = 0
    THEN w
    ELSE LET split == u_split_draw(dinfo.mode, max_verts, count)
         IN  lima_draw_vbo_count(
                 lima_draw_vbo_update(w, dinfo, StartCount(start, split[1])),
                 dinfo, start + split[2], count - split[2])

\* lima_draw_vbo with num_draws = 1.
DrawOne(w, dinfo, draw0) ==
    LET trim == u_trim_pipe_prim(dinfo.mode, draw0.count)
        draw == StartCount(draw0.start, trim[2])
        w1 == [w EXCEPT !.ctx.clipped_scissor =
                            lima_clip_scissor_to_viewport(w.ctx)]
        w2 == lima_job_get(w1)
        w3 == [w2 EXCEPT !.jobs[Key(w2)].pp_max_stack_size =
                             MAX2(@, w2.ctx.fs_stack_size)]
        w4 == lima_job_add_bo(lima_job_add_bo(w3, "GP", "vs", "READ"),
                              "PP", "fs", "READ")
    IN  IF ~trim[1] THEN w
        ELSE IF ~w.ctx.bind_fs \/ ~w.ctx.bind_vs THEN w
        ELSE IF lima_is_scissor_zero(w1.ctx) THEN w1
        ELSE IF ~w.ctx.shader_state_ok THEN w1
        ELSE IF dinfo.index_size # 0
             THEN lima_draw_vbo_indexed(w4, dinfo, draw)
             ELSE lima_draw_vbo_count(w4, dinfo, draw.start, draw.count)

\* lima_draw_vbo for several draws, giving up at the first draw it skips.
RECURSIVE lima_draw_vbo_in_stops(_, _, _)
lima_draw_vbo_in_stops(w, dinfo, draws) ==
    IF Len(draws) > 1
    THEN IF DrawOne(w, dinfo, Head(draws)).trace = w.trace
         THEN w
         ELSE lima_draw_vbo_in_stops(DrawOne(w, dinfo, Head(draws)), dinfo,
                                     Tail(draws))
    ELSE DrawOne(w, dinfo, draws[1])

\* lima_draw_vbo: one call of it per draw when there are several.
RECURSIVE lima_draw_vbo_in(_, _, _)
lima_draw_vbo_in(w, dinfo, draws) ==
    IF Len(draws) > 1
    THEN lima_draw_vbo_in(DrawOne(w, dinfo, Head(draws)), dinfo, Tail(draws))
    ELSE DrawOne(w, dinfo, draws[1])

----------------------------------------------------------------------------
(* lima_draw.c: the calls *)

\* A call returns: the context and the jobs are as it left them.
Return(w, c) ==
    /\ ctx' = w.ctx
    /\ jobs' = w.jobs
    /\ write_jobs' = w.write_jobs
    /\ submitted' = w.submitted
    /\ index_cache' = w.index_cache
    /\ trace' = w.trace
    /\ call' = c
    /\ ncalls' = ncalls + 1
    /\ UNCHANGED index_data
    /\ UNCHANGED notLima

\* pipe_context::clear.
lima_clear(masks) ==
    /\ ncalls < MaxCalls
    /\ \E buffers \in masks :
         Return(lima_clear_in(World, buffers),
                [op |-> "clear", buffers |-> buffers])

\* What the caller of an indexed draw sees to: the range drawn lies in the
\* indices given, and bounds said to be valid are the least and the greatest
\* index of the range (they are 0 when not said to be valid).
IndicesGiven(dinfo, draw) ==
    LET data == IF dinfo.has_user_indices
                THEN dinfo.user_indices
                ELSE index_data[dinfo.resource]
    IN  /\ draw.start + draw.count <= Len(data)
        /\ <<dinfo.min_index, dinfo.max_index>> =
              IF dinfo.index_bounds_valid
              THEN u_vbuf_get_minmax_index(data, draw)
              ELSE <<0, 0>>

\* pipe_context::draw_vbo.
lima_draw_vbo(infos, drawss) ==
    /\ ncalls < MaxCalls
    /\ \E dinfo \in infos, draws \in drawss :
         /\ dinfo.index_size # 0 => \A i \in 1..Len(draws) :
                                       IndicesGiven(dinfo, draws[i])
         /\ Return(lima_draw_vbo_in(World, dinfo, draws),
                   [op |-> "draw", dinfo |-> dinfo, draws |-> draws])

\* pipe_context::set_framebuffer_state: another framebuffer is bound, and
\* with it the job of that framebuffer.
lima_set_framebuffer_state(fbs) ==
    /\ ncalls < MaxCalls
    /\ \E fb \in fbs \ {ctx.framebuffer} :
         Return([World EXCEPT !.ctx.framebuffer = fb],
                [op |-> "set_framebuffer_state"])

\* pipe_context::set_viewport_states.
lima_set_viewport_states(viewports) ==
    /\ ncalls < MaxCalls
    /\ \E v \in viewports \ {ctx.viewport} :
         Return([World EXCEPT !.ctx.viewport = v,
                              !.ctx.dirty = @ \cup {"VIEWPORT"}],
                [op |-> "set_viewport_states"])

\* pipe_context::set_scissor_states and bind_rasterizer_state: the scissor
\* and whether the rasterizer enables it.
lima_set_scissor_states(scissors) ==
    /\ ncalls < MaxCalls
    /\ \E s \in scissors, enabled \in BOOLEAN :
         /\ <<s, enabled>> # <<ctx.scissor, ctx.scissor_enabled>>
         /\ Return([World EXCEPT !.ctx.scissor = s,
                                 !.ctx.scissor_enabled = enabled,
                                 !.ctx.dirty = @ \cup {"SCISSOR"}],
                   [op |-> "set_scissor_states"])

\* pipe_context::set_constant_buffer.
lima_set_constant_buffer ==
    /\ ncalls < MaxCalls
    /\ \E shader \in {"VERTEX", "FRAGMENT"} :
         Return([World EXCEPT !.ctx.const_buffer_dirty[shader] = TRUE,
                              !.ctx.dirty = @ \cup {"CONST_BUFF"}],
                [op |-> "set_constant_buffer", shader |-> shader])

\* The indices of a resource are written anew: its cache is invalidated.
panfrost_minmax_cache_invalidate(datas) ==
    /\ ncalls < MaxCalls
    /\ \E res \in DOMAIN index_data, data \in datas :
         /\ index_data' = [index_data EXCEPT ![res] = data]
         /\ index_cache' = [index_cache EXCEPT ![res] = {}]
         /\ call' = [op |-> "invalidate", resource |-> res]
         /\ trace' = <<>>
         /\ ncalls' = ncalls + 1
         /\ UNCHANGED <<ctx, jobs, write_jobs, submitted>>
         /\ UNCHANGED notLima

\* The context as lima_context_create leaves it, bound to framebuffer fb.
NewContext(fb, scissor_enabled, scissor, viewport) ==
    [framebuffer |-> fb, scissor_enabled |-> scissor_enabled,
     scissor |-> scissor, viewport |-> viewport,
     clipped_scissor |-> Rect(0, 0, 0, 0),
     dirty |-> {}, const_buffer_dirty |-> [VERTEX |-> FALSE, FRAGMENT |-> FALSE],
     zsa |-> [depth_enabled |-> TRUE, stencil_enabled |-> FALSE],
     bind_vs |-> TRUE, bind_fs |-> TRUE, shader_state_ok |-> TRUE,
     fs_stack_size |-> 1,
     min_index |-> 0, max_index |-> 0, index_res |-> NoRes,
     gp_output |-> NoRes, gp_outputs |-> 0,
     vs |-> VertexShader(<<4, 4>>, 0, -1)]

\* The index resources, and the indices a resource or a user array holds.
IndexResources == {"I", "J"}

IndexDatas == {<<0, 1, 2>>, <<2, 1, 3>>}

\* No call made yet, no job, empty caches.
InitLima(contexts) ==
    /\ ctx \in contexts
    /\ jobs = <<>>
    /\ write_jobs = <<>>
    /\ submitted = <<>>
    /\ index_data \in [IndexResources -> {<<0, 1, 2>>}]
    /\ index_cache = [r \in IndexResources \cup {IndexUpload} |-> {}]
    /\ call = [op |-> "none"]
    /\ trace = <<>>
    /\ ncalls = 0
    /\ InitRTIdle
    /\ InitCSIdle

\* The coordinates a scissor is given, and the edges a viewport is given:
\* a viewport may lie off the framebuffer on either side.
Coords == 0..(MaxCoord + 1)

ViewportEdges == (-2)..(MaxCoord + 1)

\* The contexts whose scissor is clipped: every scissor and viewport along
\* one axis, the other axis covering the framebuffer.
ClipContexts ==
    { NewContext(Framebuffer(1, width, height, "A", "Z"), enabled,
                 Rect(min, max, 0, height), Viewport(low, high, 0, height)) :
        width \in 1..MaxCoord, height \in {MaxCoord}, enabled \in BOOLEAN,
        min \in Coords, max \in Coords,
        low \in ViewportEdges, high \in ViewportEdges }
    \cup
    { NewContext(Framebuffer(1, width, height, "A", "Z"), enabled,
                 Rect(0, width, min, max), Viewport(0, width, low, high)) :
        width \in {MaxCoord}, height \in 1..MaxCoord, enabled \in BOOLEAN,
        min \in Coords, max \in Coords,
        low \in ViewportEdges, high \in ViewportEdges }

\* A draw of three vertices, not indexed.
ArrayDraws(modes) ==
    { DrawInfo(mode, 0, FALSE, FALSE, 0, 0, NoRes, <<>>) : mode \in modes }

InitLimaClip == InitLima(ClipContexts)

NextLimaClip == lima_draw_vbo(ArrayDraws({"TRIANGLES"}), {<<StartCount(0, 3)>>})

SpecLimaClip == InitLimaClip /\ [][NextLimaClip]_vars

\* The framebuffers bound in turn: 1 and 2 share the colour buffer A, 1 and
\* 3 the depth buffer Z; 2 has no depth buffer, 3 no colour buffer.
Framebuffers ==
    { Framebuffer(1, MaxCoord, MaxCoord, "A", "Z"),
      Framebuffer(2, MaxCoord, MaxCoord, "A", NoRes),
      Framebuffer(3, MaxCoord, MaxCoord, NoRes, "Z") }

\* The viewports and scissors set: the whole framebuffer, a part of it, and
\* one that leaves nothing to draw.
Viewports ==
    { Viewport(0, MaxCoord, 0, MaxCoord), Viewport(1, MaxCoord, 0, 1),
      Viewport(0, 0, 0, MaxCoord) }

Scissors == { Rect(0, MaxCoord, 0, MaxCoord), Rect(0, 1, 1, 1) }

\* The masks a clear is given.
ClearMasks == { {"COLOR0"}, {"DEPTH", "STENCIL"}, {"COLOR0", "DEPTH"} }

InitLimaDraw ==
    InitLima({ NewContext(fb, FALSE, Rect(0, MaxCoord, 0, MaxCoord),
                          Viewport(0, MaxCoord, 0, MaxCoord)) :
                 fb \in Framebuffers })

NextLimaDraw ==
    \/ lima_clear(ClearMasks)
    \/ lima_draw_vbo(ArrayDraws({"TRIANGLES"}), {<<StartCount(0, 3)>>})
    \/ lima_set_framebuffer_state(Framebuffers)
    \/ lima_set_viewport_states(Viewports)
    \/ lima_set_scissor_states(Scissors)
    \/ lima_set_constant_buffer

SpecLimaDraw == InitLimaDraw /\ [][NextLimaDraw]_vars

\* The index ranges drawn.
IndexRanges == { <<StartCount(0, 2)>>, <<StartCount(1, 2)>> }

\* The bounds an indexed draw may carry: 0 .. the greatest index held.
IndexBounds == 0..3

\* The indexed draws: from a resource or from a user array, with or without
\* index bounds.
IndexedDraws ==
    { DrawInfo("POINTS", 2, FALSE, valid, min, max, res, <<>>) :
        valid \in BOOLEAN, min \in IndexBounds, max \in IndexBounds,
        res \in IndexResources }
    \cup
    { DrawInfo("POINTS", 2, TRUE, valid, min, max, NoRes, data) :
        valid \in BOOLEAN, min \in IndexBounds, max \in IndexBounds,
        data \in IndexDatas }

InitLimaIndex ==
    InitLima({ NewContext(Framebuffer(1, MaxCoord, MaxCoord, "A", "Z"), FALSE,
                          Rect(0, MaxCoord, 0, MaxCoord),
                          Viewport(0, MaxCoord, 0, MaxCoord)) })

NextLimaIndex ==
    \/ lima_draw_vbo(IndexedDraws, IndexRanges)
    \/ panfrost_minmax_cache_invalidate(IndexDatas)

SpecLimaIndex == InitLimaIndex /\ [][NextLimaIndex]_vars

\* The vertex counts of the draws that are split: within the limit of
\* max_verts, just above it, and several times it.
SplitCounts == {3, 65536, 200000}

\* The draws split: one range each, from vertex 0 or from vertex 7.
SplitDraws ==
    { <<StartCount(IF count = 65536 THEN 7 ELSE 0, count)>> :
        count \in SplitCounts }

\* The viewports set between them: the whole framebuffer, one whose right
\* edge lies left of the framebuffer, one that leaves nothing to draw, and
\* one whose left edge lies right of its right edge.
SplitViewports ==
    { Viewport(0, MaxCoord, 0, MaxCoord), Viewport(0, -1, 0, MaxCoord),
      Viewport(1, 1, 0, MaxCoord), Viewport(MaxCoord, 1, 0, MaxCoord) }

InitLimaSplit ==
    InitLima({ NewContext(Framebuffer(1, MaxCoord, MaxCoord, "A", "Z"), FALSE,
                          Rect(0, MaxCoord, 0, MaxCoord),
                          Viewport(0, MaxCoord, 0, MaxCoord)) })

NextLimaSplit ==
    \/ lima_draw_vbo(ArrayDraws(Modes), SplitDraws)
    \/ lima_clear({{"COLOR0", "DEPTH"}})
    \/ lima_set_viewport_states(SplitViewports)
    \/ lima_set_scissor_states(Scissors)

SpecLimaSplit == InitLimaSplit /\ [][NextLimaSplit]_vars

\* The most outputs of a vertex shader.
MaxOutputs == 4

\* The component sizes of a varying: 2 bytes (fp16) and 4 bytes (fp32).
ComponentSizes == {2, 4}

\* The vertex shaders drawn with: every number of outputs, every size of
\* each, the position at any output and the point size at any other or absent.
VertexShaders ==
    UNION { { VertexShader(sizes, p[1], p[2]) :
                sizes \in [1..n -> ComponentSizes],
                p \in { q \in (0..(n - 1)) \X ((-1)..(n - 1)) : q[1] # q[2] } } :
            n \in 1..MaxOutputs }

InitLimaVarying ==
    InitLima({ [NewContext(Framebuffer(1, MaxCoord, MaxCoord, "A", "Z"), FALSE,
                           Rect(0, MaxCoord, 0, MaxCoord),
                           Viewport(0, MaxCoord, 0, MaxCoord))
                  EXCEPT !.vs = vs] : vs \in VertexShaders })

NextLimaVarying ==
    lima_draw_vbo(ArrayDraws({"TRIANGLES"}), {<<StartCount(0, 3)>>})

SpecLimaVarying == InitLimaVarying /\ [][NextLimaVarying]_vars

\* The draws of a call of several: counts that match the mode and counts
\* that do not (fewer than 3 vertices for triangles, none for points).
BatchDraws ==
    { <<StartCount(0, 2)>>,
      <<StartCount(0, 0), StartCount(0, 3)>>,
      <<StartCount(0, 3), StartCount(3, 2), StartCount(5, 4)>> }

\* The viewports set between them: the whole framebuffer, and one that
\* leaves nothing to draw.
BatchViewports ==
    { Viewport(0, MaxCoord, 0, MaxCoord), Viewport(0, 0, 0, MaxCoord) }

\* The contexts drawn with: both shaders bound, or one of them missing.
InitLimaBatch ==
    InitLima({ [NewContext(Framebuffer(1, MaxCoord, MaxCoord, "A", "Z"), FALSE,
                           Rect(0, MaxCoord, 0, MaxCoord),
                           Viewport(0, MaxCoord, 0, MaxCoord))
                  EXCEPT !.bind_vs = b[1], !.bind_fs = b[2]] :
                 b \in {<<TRUE, TRUE>>, <<FALSE, TRUE>>, <<TRUE, FALSE>>} })

NextLimaBatch ==
    \/ lima_draw_vbo(ArrayDraws(Modes), BatchDraws)
    \/ lima_set_viewport_states(BatchViewports)
    \/ lima_set_constant_buffer

SpecLimaBatch == InitLimaBatch /\ [][NextLimaBatch]_vars

----------------------------------------------------------------------------
(* Properties of the ray-tracing pass *)

\* Instruction i of the shader has been through the loop body and the pass
\* went on.
Passed(i) == i < idx

StillIn(o, i) == \E k \in 1..Len(o) : o[k].id = i

SameImpl(i, j) == prog[i].pos[1] = prog[j].pos[1]

\* The kinds claim C1 lists: every case of the switch but load_uniform.
C1Handled == RTCaseKinds \ {"load_uniform"}

\* C1 as stated: after brw_nir_lower_rt_intrinsics has run on a shader of any
\* stage, no intrinsic of a handled kind remains in any function.
C1_NoHandledIntrinsicRemains ==
    (pc = "done" /\ run = 1) =>
        \A k \in 1..Len(out) : out[k].kind \notin C1Handled

\* The reads whose source record the prologue does not load for the stage
\* and whose lowering makes no builder call on it.
C1LeftInPlace(kind, s) ==
    \/ /\ kind \in {"load_ray_world_origin", "load_ray_world_direction",
                    "load_ray_t_min", "load_ray_t_max"}
       /\ s \notin {ANY_HIT, CLOSEST_HIT, INTERSECTION, MISS}
    \/ /\ kind \in {"load_ray_object_origin", "load_ray_object_direction"}
       /\ s \notin {ANY_HIT, CLOSEST_HIT, INTERSECTION}

\* What the pass does (C1): after it has completed, every intrinsic of a handled
\* kind is removed and its uses read the replacement value, except a read of
\* the ray world origin, world direction, t_min or t_max in a stage other
\* than any-hit, closest-hit, intersection and miss and a read of the ray
\* object origin or direction in a stage other than any-hit, closest-hit and
\* intersection: those stay in place, their uses untouched.
C1_HandledRemovedWhereRecordLoaded ==
    (pc = "done" /\ run = 1) =>
        \A i \in 1..Len(prog) :
            prog[i].kind \in C1Handled =>
                IF C1LeftInPlace(prog[i].kind, stage)
                THEN StillIn(out, i) /\ uses[i] = OwnDef(i)
                ELSE /\ ~StillIn(out, i)
                     /\ prog[i].kind \notin MarkerKinds => uses[i] # OwnDef(i)

\* Events k and k + 1 of the log are a push and then a resume of one size > 0.
C2PushThenResume(k) ==
    /\ log[k].op = "btd_stack_push_intel"
    /\ log[k + 1].op = "btd_resume_intel"
    /\ log[k].size = log[k + 1].size
    /\ log[k].size > 0

\* C2 as stated: for a push marker of size S > 0 followed immediately by a
\* resume marker of the same size S, the cursor stored in the hotzone after
\* the resume equals the cursor before the push.
C2_PushResumeRestoresCursor ==
    \A k \in 1..(Len(log) - 1) :
        C2PushThenResume(k) => log[k + 1].stored = log[k].cursor

\* What the lowered code does (C2): a push of size S > 0 stores cursor + S and leaves the
\* function's running cursor as it was; a resume of size S > 0 lowers the
\* running cursor by S and stores it (modulo 2^32). When the resume follows
\* the push in the next invocation, which loads what the push stored, it
\* stores the cursor before the push; when it follows the push in the same
\* function it stores that cursor less S.
C2_ResumeRestoresAcrossInvocations ==
    /\ \A k \in 1..Len(log) :
          log[k].stored =
             iadd_imm(log[k].cursor,
                      IF log[k].op = "btd_stack_push_intel"
                      THEN log[k].size ELSE 0 - log[k].size)
    /\ \A k \in 1..(Len(log) - 1) :
          C2PushThenResume(k) =>
             IF log[k + 1].inv # log[k].inv
             THEN log[k + 1].stored = log[k].cursor
             ELSE log[k + 1].stored = iadd_imm(log[k].cursor, 0 - log[k].size)

\* A resume marker sits where the code asserts it does not: outside the
\* entry block, or behind a scratch base pointer load of its impl.
C3Asserted(j) ==
    \/ prog[j].pos[2] # 1
    \/ \E k \in 1..(j - 1) :
          SameImpl(k, j) /\ prog[k].kind = "load_scratch_base_ptr"

\* C3 as stated: a resume marker met in a block other than the entry block,
\* or after any other handled intrinsic (a system-value read or a push
\* marker) has been processed, aborts the pass: no run completes on such a
\* shader.
C3_ResumeNotFirstAborts ==
    (pc = "done" /\ run = 1) =>
        \A j \in 1..Len(prog) :
            prog[j].kind = "btd_resume_intel" =>
                /\ prog[j].pos[2] = 1
                /\ ~ \E k \in 1..(j - 1) :
                        /\ SameImpl(k, j)
                        /\ \/ prog[k].kind = "btd_stack_push_intel"
                           \/ uses[k] # OwnDef(k)

\* What the pass does (C3): a resume marker aborts the pass exactly when it is met in a
\* block other than the entry block or after a scratch base pointer load of
\* the same function; met in the entry block after any other handled
\* intrinsic (a push marker, another system-value read) it is lowered.
C3_ResumeAbortsIffBlockOrScratch ==
    run = 1 =>
        \A j \in 1..Len(prog) :
            prog[j].kind = "btd_resume_intel" =>
                IF Passed(j) THEN ~C3Asserted(j)
                ELSE pc = "abort" /\ C3Asserted(j)

\* C4 as stated: in a function that contains a resume marker every shader
\* record pointer read, wherever it sits, aborts the pass: no run completes
\* on a shader with both in one function.
C4_RecordPtrInResumeShaderAborts ==
    (pc = "done" /\ run = 1) =>
        \A j \in 1..Len(prog) :
            prog[j].kind = "load_shader_record_ptr" =>
                ~ \E k \in 1..Len(prog) :
                    SameImpl(k, j) /\ prog[k].kind = "btd_resume_intel"

C4AfterResume(j) ==
    \E k \in 1..(j - 1) : SameImpl(k, j) /\ prog[k].kind = "btd_resume_intel"

\* What the pass does (C4): a shader record pointer read aborts the pass exactly when
\* the loop reaches it after the resume marker of its function; a read
\* before the marker, or in a function without one, is replaced by the BTD
\* local argument address.
C4_RecordPtrAbortsIffAfterResume ==
    run = 1 =>
        \A j \in 1..Len(prog) :
            prog[j].kind = "load_shader_record_ptr" =>
                IF Passed(j)
                THEN /\ ~C4AfterResume(j)
                     /\ uses[j].op = "load_btd_local_arg_addr_intel"
                     /\ ~StillIn(out, j)
                ELSE pc = "abort" /\ C4AfterResume(j)

FuncPart(o, f) == SelectSeq(o, LAMBDA x : x.pos[1] = f)

\* C5 as stated: a second run of the pass on its own output leaves the
\* program as the first run produced it.
C5_SecondRunIsIdentity ==
    (pc = "done" /\ run = 2) => out = firstOut.out

\* C5, amended: a second run removes no instruction of the first run's
\* output and rewrites no use; it is not the identity, because every run
\* inserts the prologue (the globals, hotzone, ray and hit loads and the
\* stack address) anew before the entry block of every function: the second
\* output is the first with one more prologue in front of each function.
C5_SecondRunAddsOnlyPrologue ==
    (pc = "done" /\ run = 2) =>
        /\ uses = firstOut.uses
        /\ \A f \in Funcs :
              LET new == FuncPart(out, f)
                  old == FuncPart(firstOut.out, f)
                  n   == Len(new) - Len(old)
              IN  /\ n >= 1
                  /\ SubSeq(new, n + 1, Len(new)) = old
                  /\ \A k \in 1..n :
                        /\ new[k].id = 0 /\ new[k].by = 0
                        /\ new[k].pos = <<f, 1>>
                        /\ new[k].kind \notin RTCaseKinds

C5_Witness ==
    /\ pc = "done" /\ run = 2
    /\ \E i \in 1..Len(firstOut.prog) :
          firstOut.prog[i].kind \in C1Handled /\ ~StillIn(out, i)
    /\ \E k \in 1..Len(out) : out[k].kind \in RTCaseKinds

\* The tags a hit record's leaf_type takes.
LeafTypes == { "BRW_RT_BVH_NODE_TYPE_INTERNAL", "BRW_RT_BVH_NODE_TYPE_INSTANCE",
               "BRW_RT_BVH_NODE_TYPE_PROCEDURAL", "BRW_RT_BVH_NODE_TYPE_QUAD" }

\* What a predicate built by build_leaf_is_procedural evaluates to on a hit
\* record with the given leaf_type (nir_imm_false, nir_imm_true, nir_ieq).
EvalPred(predop, leaf_type) ==
    CASE predop = "imm_false" -> FALSE
      [] predop = "imm_true" -> TRUE
      [] predop = "ieq" -> leaf_type = "BRW_RT_BVH_NODE_TYPE_PROCEDURAL"

\* The leaf offset the lowered primitive id read loads from (nir_bcsel).
PrimIdOffset(val, leaf_type, prim_leaf_index) ==
    IF EvalPred(val.sel, leaf_type)
    THEN prim_leaf_index + val.imm[1]
    ELSE val.imm[2]

C6Procedural(s, leaf_type) ==
    IF s = ANY_HIT THEN FALSE
    ELSE IF s = INTERSECTION THEN TRUE
    ELSE leaf_type = "BRW_RT_BVH_NODE_TYPE_PROCEDURAL"

\* C6: the 'hit leaf is procedural' predicate of the primitive id, hit kind
\* and leaf-procedural lowerings is constant false in the any-hit stage,
\* constant true in the intersection stage and otherwise the comparison of
\* the hit record's leaf type with the procedural sentinel; the primitive id
\* is read at leaf offset prim_leaf_index + 12 when procedural, else at 8.
C6_LeafIsProceduralPerStage ==
    run = 1 =>
        \A j \in 1..Len(prog) :
            ( /\ Passed(j)
              /\ prog[j].kind \in {"load_primitive_id", "load_ray_hit_kind",
                                   "load_leaf_procedural_intel"}
              /\ uses[j] # Undef ) =>
            LET predop == IF prog[j].kind = "load_leaf_procedural_intel"
                          THEN uses[j].op ELSE uses[j].sel
            IN  \A lt \in LeafTypes :
                  /\ EvalPred(predop, lt) = C6Procedural(stage, lt)
                  /\ prog[j].kind = "load_primitive_id" =>
                       \A pli \in 0..MaxLeafIndex :
                          PrimIdOffset(uses[j], lt, pli) =
                             IF C6Procedural(stage, lt) THEN pli + 12 ELSE 8

C6_Witness ==
    /\ run = 1 /\ stage = CLOSEST_HIT
    /\ \E j \in 1..Len(prog) :
          /\ Passed(j)
          /\ prog[j].kind = "load_primitive_id"
          /\ uses[j].sel = "ieq"

----------------------------------------------------------------------------
(* Properties of the compute pass *)

\* The values lane `channel` of the g-th subgroup run got for read i.
Got(g, channel, i) == threads[g][channel][i]

Lanes == 0..(dispatch.simd_width - 1)

\* C7: in linear mode (derivative group not QUADS), for every subgroup id,
\* lane and workgroup size (sx, sy, sz), local_index is
\* subgroup id * subgroup width + lane and the local id is
\* (local_index mod sx, (local_index / sx) mod sy, local_index / (sx * sy));
\* size (4,4,1), width 8, subgroup 0, lane 5 gives id (1,1,0) and index 5.
C7_LinearModeIndexAndId ==
    info.derivative_group # QUADS =>
        \A g \in 1..Len(threads), l \in Lanes, i \in 1..Len(csProg) :
            LET li == (g - 1) * dispatch.simd_width + l
                sx == dispatch.size[1]
                sy == dispatch.size[2]
            IN  /\ csProg[i].kind = "load_local_invocation_index" =>
                     Got(g, l, i) = <<li>>
                /\ csProg[i].kind = "load_local_invocation_id" =>
                     Got(g, l, i) = <<li % sx, (li \div sx) % sy,
                                      li \div (sx * sy)>>
                /\ ( dispatch.size = <<4, 4, 1>> /\ dispatch.simd_width = 8
                     /\ g = 1 /\ l = 5 ) =>
                     /\ csProg[i].kind = "load_local_invocation_index" =>
                          Got(g, l, i) = <<5>>
                     /\ csProg[i].kind = "load_local_invocation_id" =>
                          Got(g, l, i) = <<1, 1, 0>>

C7_Witness ==
    /\ info.derivative_group # QUADS
    /\ dispatch.size = <<4, 4, 1>> /\ dispatch.simd_width = 8
    /\ Len(threads) >= 1
    /\ \E i, j \in 1..Len(csProg) :
          /\ csProg[i].kind = "load_local_invocation_id"
          /\ csProg[j].kind = "load_local_invocation_index"
          /\ Got(1, 5, i) = <<1, 1, 0>>
          /\ Got(1, 5, j) = <<5>>

\* C8: in quad mode, for every workgroup whose x and y sizes are even, the
\* four invocations at consecutive subgroup-order positions 4k..4k+3 get the
\* four distinct local ids of one 2x2 quad: they share id.x / 2, id.y / 2
\* and id.z and differ only in the low bits of id.x and id.y.
C8_QuadModeGroupsOfFour ==
    ( /\ info.derivative_group = QUADS
      /\ dispatch.size[1] % 2 = 0
      /\ dispatch.size[2] % 2 = 0 ) =>
        \A g \in 1..Len(threads), i \in 1..Len(csProg) :
            csProg[i].kind = "load_local_invocation_id" =>
                \A k \in 0..((dispatch.simd_width \div 4) - 1) :
                    LET id(n) == Got(g, 4 * k + n, i)
                    IN  /\ \A m, n \in 0..3 :
                              /\ m # n => id(m) # id(n)
                              /\ id(m)[1] \div 2 = id(n)[1] \div 2
                              /\ id(m)[2] \div 2 = id(n)[2] \div 2
                              /\ id(m)[3] = id(n)[3]
                        /\ { <<id(n)[1] % 2, id(n)[2] % 2>> : n \in 0..3 }
                             = {0, 1} \X {0, 1}

C8_Witness ==
    /\ info.derivative_group = QUADS
    /\ dispatch.size = <<4, 2, 2>>
    /\ Len(threads) >= 2
    /\ \E i \in 1..Len(csProg) :
          /\ csProg[i].kind = "load_local_invocation_id"
          /\ { Got(1, n, i) : n \in 4..7 }
               = { <<2, 0, 0>>, <<3, 0, 0>>, <<2, 1, 0>>, <<3, 1, 0>> }

\* C9: num_subgroups is lowered to the integer ceiling of
\* (sx * sy * sz) / subgroup width, computed as (size + width - 1) / width,
\* for compile-time and for runtime-loaded workgroup sizes alike; 70
\* invocations at width 16 give 5.
C9_NumSubgroupsIsCeiling ==
    \A g \in 1..Len(threads), l \in Lanes, i \in 1..Len(csProg) :
        csProg[i].kind = "load_num_subgroups" =>
            LET size == Total(dispatch.size)
                width == dispatch.simd_width
                n == Got(g, l, i)[1]
            IN  /\ Len(Got(g, l, i)) = 1
                /\ n = (size + width - 1) \div width
                /\ n * width >= size
                /\ (n - 1) * width < size
                /\ (size = 70 /\ width = 16) => n = 5

C9_Witness ==
    /\ Total(dispatch.size) = 70
    /\ dispatch.simd_width = 16
    /\ info.local_size_variable
    /\ Len(threads) = 5
    /\ \E i \in 1..Len(csProg) :
          /\ csProg[i].kind = "load_num_subgroups"
          /\ Got(5, 0, i) = <<5>>

\* The derivations emitted into block p: each ends in one nir_vec3.
DerivationsIn(p) ==
    { k \in 1..Len(csOut) : csOut[k].kind = "nir_vec3" /\ csOut[k].pos = p }

ReadsIn(p) ==
    { i \in 1..Len(csProg) : csProg[i].kind \in LocalKinds /\ csProg[i].pos = p }

First(S) == CHOOSE i \in S : \A j \in S : i <= j

\* C10: within one basic block the (local_index, local_id) derivation is
\* emitted at most once, at the first local_invocation_id or
\* local_invocation_index read of the block, and every later such read of
\* the block is rewritten to those same two values; a read in a different
\* block triggers a fresh derivation and never reuses another block's.
C10_OneDerivationPerBlock ==
    \A p \in Positions :
        /\ Cardinality(DerivationsIn(p)) <= 1
        /\ ReadsIn(p) = {} => DerivationsIn(p) = {}
        /\ ReadsIn(p) # {} =>
             /\ \E k \in DerivationsIn(p) : csOut[k].by = First(ReadsIn(p))
             /\ \A i \in ReadsIn(p) :
                   /\ csUses[i].deriv = First(ReadsIn(p))
                   /\ csUses[i].op =
                        IF csProg[i].kind = "load_local_invocation_id"
                        THEN "local_id" ELSE "local_index"
                   /\ ~ \E k \in 1..Len(csOut) : csOut[k].id = i

C10_Witness ==
    /\ csPc = "done"
    /\ \E p \in Positions :
          /\ Cardinality(ReadsIn(p)) >= 2
          /\ Cardinality(DerivationsIn(p)) = 1
          /\ \E i, j \in ReadsIn(p) :
                /\ i < j
                /\ csUses[i] = CSVal("local_id", i, FALSE)
                /\ csUses[j] = CSVal("local_index", i, FALSE)

\* A precondition of the pass is violated by the shader's info.
C11Violation ==
    \/ info.stage # COMPUTE /\ info.stage # KERNEL
    \/ /\ ~info.local_size_variable
       /\ info.derivative_group = QUADS
       /\ info.local_size[1] % 2 = 1 \/ info.local_size[2] % 2 = 1
    \/ /\ ~info.local_size_variable
       /\ info.derivative_group = LINEAR
       /\ (info.local_size[1] * info.local_size[2] * info.local_size[3]) % 4 # 0

\* C11: brw_nir_lower_cs_intrinsics checks its preconditions before it
\* rewrites anything: with a fixed workgroup size quad mode needs local_size
\* x and y even and linear mode needs x*y*z divisible by 4, and the stage
\* must be compute or kernel; a violation aborts and no instruction is
\* rewritten. With a variable workgroup size no size check is made.
C11_PreconditionsCheckedFirst ==
    /\ csPc = "abort" =>
         /\ C11Violation
         /\ csProg = <<>> /\ csOut = <<>> /\ csUses = <<>>
         /\ ~progress
    /\ csPc \in {"instr", "done"} => ~C11Violation
    /\ csPc = "start" => csOut = <<>> /\ csUses = <<>> /\ ~progress

C11_Witness ==
    /\ csPc = "abort"
    /\ info.stage = COMPUTE
    /\ ~info.local_size_variable
    /\ info.derivative_group = QUADS
    /\ info.local_size = <<1, 2, 2>>

\* C12 as stated: the progress flag the pass returns is true exactly when
\* the pass rewrote something, the 64-bit to 32-bit narrowing of a
\* workgroup-size, workgroup-id or num-groups read included.
C12_ProgressIffRewritten ==
    csPc = "done" =>
        (progress <=> \E i \in 1..Len(csProg) : csUses[i] # CSOwnDef(i))

\* What the pass returns (C12): true exactly when it replaced a
\* local_invocation_id, local_invocation_index or num_subgroups read; a
\* narrowing leaves the flag as it was.
C12_ProgressIffReplaced ==
    csPc = "done" =>
        (progress <=> \E i \in 1..Len(csProg) :
                          csProg[i].kind \in LocalKinds \cup {"load_num_subgroups"})

\* Lane l of the g-th subgroup run is an invocation of the workgroup: its
\* position in subgroup order lies below the size of the workgroup.
InGroup(g, l) == (g - 1) * dispatch.simd_width + l < Total(dispatch.size)

\* The sizes the quad branch is meant for: x and y even.
QuadSizes ==
    info.derivative_group = QUADS =>
        dispatch.size[1] % 2 = 0 /\ dispatch.size[2] % 2 = 0

\* C27: in both numbering modes, for every invocation of a workgroup of size
\* (sx, sy, sz), sx and sy even in quad mode, the lowered local id and local
\* index satisfy id.x = index mod sx, id.y = (index / sx) mod sy,
\* id.z = index / (sx * sy), with id.x < sx, id.y < sy, id.z < sz, and so
\* index = id.x + id.y * sx + id.z * sx * sy.
C27_IdIsIndexInClosedForm ==
    QuadSizes =>
        \A g \in 1..Len(threads), l \in Lanes, i, j \in 1..Len(csProg) :
            ( /\ InGroup(g, l)
              /\ csProg[i].kind = "load_local_invocation_id"
              /\ csProg[j].kind = "load_local_invocation_index" ) =>
                LET id == Got(g, l, i)
                    li == Got(g, l, j)[1]
                    sx == dispatch.size[1]
                    sy == dispatch.size[2]
                    sz == dispatch.size[3]
                IN  /\ id[1] = li % sx
                    /\ id[2] = (li \div sx) % sy
                    /\ id[3] = li \div (sx * sy)
                    /\ id[1] < sx /\ id[2] < sy /\ id[3] < sz
                    /\ li = id[1] + id[2] * sx + id[3] * sx * sy

\* Quad mode, size (4,2,2), width 8: lane 2 of the second subgroup, at
\* position 10, is invocation (0,1,1) with index 12.
C27_Witness ==
    /\ info.derivative_group = QUADS
    /\ dispatch.size = <<4, 2, 2>> /\ dispatch.simd_width = 8
    /\ Len(threads) = 2
    /\ \E i, j \in 1..Len(csProg) :
          /\ csProg[i].kind = "load_local_invocation_id"
          /\ csProg[j].kind = "load_local_invocation_index"
          /\ Got(2, 2, i) = <<0, 1, 1>>
          /\ Got(2, 2, j) = <<12>>

\* Every subgroup of the workgroup has run.
AllRun == Len(threads) * dispatch.simd_width >= Total(dispatch.size)

\* The invocations of the workgroup: subgroup run and lane.
Invocations ==
    { p \in (1..Len(threads)) \X Lanes : InGroup(p[1], p[2]) }

\* C28: in quad mode with even sx and sy, the map from the position in
\* subgroup order to local_index is a bijection of [0, sx * sy * sz): no two
\* invocations of a workgroup get the same local index or the same local id,
\* and every index and id lies within the workgroup.
C28_QuadIndexIsBijection ==
    ( /\ info.derivative_group = QUADS
      /\ dispatch.size[1] % 2 = 0
      /\ dispatch.size[2] % 2 = 0
      /\ AllRun ) =>
        \A i \in 1..Len(csProg) :
            /\ csProg[i].kind = "load_local_invocation_index" =>
                 /\ { Got(p[1], p[2], i)[1] : p \in Invocations }
                       = 0..(Total(dispatch.size) - 1)
                 /\ \A p, q \in Invocations :
                       Got(p[1], p[2], i) = Got(q[1], q[2], i) => p = q
            /\ csProg[i].kind = "load_local_invocation_id" =>
                 /\ { Got(p[1], p[2], i) : p \in Invocations }
                       = (0..(dispatch.size[1] - 1))
                            \X (0..(dispatch.size[2] - 1))
                            \X (0..(dispatch.size[3] - 1))
                 /\ \A p, q \in Invocations :
                       Got(p[1], p[2], i) = Got(q[1], q[2], i) => p = q

\* Quad mode, size (4,2,2), width 8: both subgroups have run and position 2
\* got index 4, not 2.
C28_Witness ==
    /\ info.derivative_group = QUADS
    /\ dispatch.size = <<4, 2, 2>> /\ dispatch.simd_width = 8
    /\ AllRun
    /\ Len(threads) = 2
    /\ \E i \in 1..Len(csProg) :
          /\ csProg[i].kind = "load_local_invocation_index"
          /\ Got(1, 2, i) = <<4>>
          /\ Got(2, 7, i) = <<15>>

----------------------------------------------------------------------------
(* Properties of the draw code *)

\* A draw has been made that reached lima_clip_scissor_to_viewport.
Clipped == call.op = "draw" /\ ctx.bind_vs /\ ctx.bind_fs

\* One axis of the intersection of the scissor with the viewport clamped to
\* the framebuffer: [min, max] is the intersection, or min = max when the
\* intersection is empty.
IsIntersection(min, max, smin, smax, low, high, size) ==
    LET lo == MAX2(smin, MAX2(low, 0))
        hi == MIN2(smax, MIN2(high, size))
    IN  /\ min <= max
        /\ lo <= hi => min = lo /\ max = hi
        /\ lo > hi => min = max

\* C14: lima_clip_scissor_to_viewport sets the clipped scissor to the
\* intersection of the scissor (the whole framebuffer when scissoring is
\* disabled) with the viewport clamped to the framebuffer, with min <= max
\* on both axes and min = max on an axis where the intersection is empty.
C14_ClipIsIntersection ==
    Clipped =>
        /\ IsIntersection(ctx.clipped_scissor.minx, ctx.clipped_scissor.maxx,
                          BaseScissor(ctx).minx, BaseScissor(ctx).maxx,
                          ctx.viewport.left, ctx.viewport.right,
                          ctx.framebuffer.width)
        /\ IsIntersection(ctx.clipped_scissor.miny, ctx.clipped_scissor.maxy,
                          BaseScissor(ctx).miny, BaseScissor(ctx).maxy,
                          ctx.viewport.bottom, ctx.viewport.top,
                          ctx.framebuffer.height)

\* What the function does (C14): it leaves min <= max on both axes, and the
\* intersection whenever the right and the top edge of the viewport are not
\* negative; a negative edge wraps around in the unsigned max field.
C14_ClipIsIntersectionOnScreen ==
    Clipped =>
        /\ ctx.clipped_scissor.minx <= ctx.clipped_scissor.maxx
        /\ ctx.clipped_scissor.miny <= ctx.clipped_scissor.maxy
        /\ (ctx.viewport.right >= 0 /\ ctx.viewport.top >= 0
              => C14_ClipIsIntersection)
        /\ ctx.viewport.right < 0
              => ctx.clipped_scissor.maxx = 65536 + ctx.viewport.right

\* The steps of lima_draw_vbo_update a trace may hold.
StepNames ==
    { "resolve", "lima_update_gp_attribute_info", "lima_update_gp_uniform",
      "lima_update_pp_uniform", "lima_update_varying", "lima_pack_vs_cmd",
      "lima_update_textures", "lima_pack_render_state", "lima_pack_plbu_cmd" }

IsStep(e) == e[1] \in StepNames

\* The steps a call has made, in order.
StepsOf(tr) ==
    LET steps == SelectSeq(tr, IsStep)
    IN  [i \in 1..Len(steps) |-> steps[i][1]]

\* A draw has just been made and not skipped.
DrawEmitted ==
    /\ ncalls' = ncalls + 1
    /\ call'.op = "draw"
    /\ trace' # <<>>

\* The order the steps are said to be made in.
ClaimedOrder ==
    << "resolve", "lima_update_gp_attribute_info", "lima_update_gp_uniform",
       "lima_update_pp_uniform", "lima_update_varying", "lima_pack_vs_cmd",
       "lima_update_textures", "lima_pack_render_state",
       "lima_pack_plbu_cmd" >>

\* Whether the draw code finds the vertex and the fragment uniforms dirty.
GpUniformDirty(c) ==
    \/ ("CONST_BUFF" \in c.dirty /\ c.const_buffer_dirty.VERTEX)
    \/ "VIEWPORT" \in c.dirty
    \/ "COMPILED_VS" \in c.dirty

PpUniformDirty(c) == "CONST_BUFF" \in c.dirty /\ c.const_buffer_dirty.FRAGMENT

Optional(cond, step) == IF cond THEN <<step>> ELSE <<>>

\* C13: every draw that is not skipped makes its steps in the order
\* resolve/clear bookkeeping, attribute descriptors, vertex uniforms and
\* fragment uniforms (each only if dirty), varyings, vertex-shader commands,
\* texture descriptors, render state, primitive-list-builder commands.
C13_StepsInStatedOrder ==
    [][DrawEmitted =>
         StepsOf(trace') =
            <<"resolve", "lima_update_gp_attribute_info">> \o
            Optional(GpUniformDirty(ctx), "lima_update_gp_uniform") \o
            Optional(PpUniformDirty(ctx), "lima_update_pp_uniform") \o
            <<"lima_update_varying", "lima_pack_vs_cmd",
              "lima_update_textures", "lima_pack_render_state",
              "lima_pack_plbu_cmd">>]_vars

\* C13, amended: every draw that is not skipped makes its steps in the
\* order resolve/clear bookkeeping, attribute descriptors, vertex uniforms
\* (if the vertex constants, the viewport or the compiled vertex shader are
\* dirty), varyings, vertex-shader commands, fragment uniforms (if the
\* fragment constants are dirty), texture descriptors, render state,
\* primitive-list-builder commands.
C13_StepsInOrder ==
    [][DrawEmitted =>
         StepsOf(trace') =
            <<"resolve", "lima_update_gp_attribute_info">> \o
            Optional(GpUniformDirty(ctx), "lima_update_gp_uniform") \o
            <<"lima_update_varying", "lima_pack_vs_cmd">> \o
            Optional(PpUniformDirty(ctx), "lima_update_pp_uniform") \o
            <<"lima_update_textures", "lima_pack_render_state",
              "lima_pack_plbu_cmd">>]_vars

\* A draw has made all nine steps, both uniform buffers written.
C13_Witness ==
    /\ call.op = "draw"
    /\ Len(StepsOf(trace)) = 9
    /\ StepsOf(trace)[5] = "lima_pack_vs_cmd"
    /\ StepsOf(trace)[6] = "lima_update_pp_uniform"

\* A rectangle of no area.
ZeroArea(r) == r.minx = r.maxx \/ r.miny = r.maxy

\* A draw has just been made that reached lima_clip_scissor_to_viewport:
\* mode and count match and both shaders are bound.
DrawClipped ==
    /\ ncalls' = ncalls + 1
    /\ call'.op = "draw"
    /\ \A i \in 1..Len(call'.draws) :
          u_trim_pipe_prim(call'.dinfo.mode, call'.draws[i].count)[1]
    /\ ctx.bind_vs /\ ctx.bind_fs

\* C15: a draw whose clipped scissor has minx = maxx or miny = maxy is
\* skipped: it emits no command, adds no buffer to any job, submits nothing,
\* and leaves the jobs (their command streams, buffers, damage rectangles
\* and resolve masks) and the dirty flags of the context as they were.
C15_ZeroScissorDrawIsSkipped ==
    [][DrawClipped /\ ZeroArea(ctx'.clipped_scissor) =>
         /\ trace' = <<>>
         /\ jobs' = jobs
         /\ write_jobs' = write_jobs
         /\ submitted' = submitted
         /\ ctx'.dirty = ctx.dirty
         /\ ctx'.const_buffer_dirty = ctx.const_buffer_dirty]_vars

\* A draw was skipped for a scissor empty along y only, with a cleared job
\* pending and dirty flags set.
C15_Witness ==
    /\ call.op = "draw"
    /\ ctx.clipped_scissor.miny = ctx.clipped_scissor.maxy
    /\ ctx.clipped_scissor.minx < ctx.clipped_scissor.maxx
    /\ trace = <<>>
    /\ "SCISSOR" \in ctx.dirty
    /\ ctx.framebuffer.key \in DOMAIN jobs
    /\ jobs[ctx.framebuffer.key].resolve # {}

\* A clear has just been made.
ClearMade == ncalls' = ncalls + 1 /\ call'.op = "clear"

\* The job of the bound framebuffer holds a draw.
DrawPending ==
    /\ ctx.framebuffer.key \in DOMAIN jobs
    /\ jobs[ctx.framebuffer.key].plbu_cmd > 0

\* What is recorded in the job of the bound framebuffer, in order.
OpsOf(js, key) == IF key \in DOMAIN js THEN js[key].ops ELSE <<>>

\* No job, pending or submitted, holds a clear recorded after a draw.
NoClearAfterDraw(js, done) ==
    LET Ordered(ops) ==
            \A i, j \in 1..Len(ops) :
                ops[i] = "draw" /\ ops[j] = "clear" => j < i
    IN  /\ \A k \in DOMAIN js : Ordered(js[k].ops)
        /\ \A n \in 1..Len(done) : Ordered(done[n].ops)

\* The clear is recorded in the job of the bound framebuffer: in the job
\* that was there when it holds no draw, in a new one otherwise.
ClearRecorded ==
    LET key == ctx.framebuffer.key
    IN  /\ key \in DOMAIN jobs'
        /\ jobs'[key].ops =
              IF DrawPending THEN <<"clear">>
              ELSE Append(OpsOf(jobs, key), "clear")

\* C16: a clear submits the current job first exactly when that job holds a
\* pending draw, and records the clear in a freshly fetched job; a clear
\* arriving when the current job holds no pending draw submits nothing; no
\* clear is recorded in a job that already holds a draw.
C16_ClearSubmitsIffDrawPending ==
    [][/\ ClearMade =>
            /\ DrawPending =>
                  /\ Len(submitted') > Len(submitted)
                  /\ submitted'[Len(submitted) + 1] = jobs[ctx.framebuffer.key]
            /\ ~DrawPending => submitted' = submitted
            /\ ClearRecorded
       /\ NoClearAfterDraw(jobs', submitted')]_vars

\* C16, amended: a clear submits the job of the bound framebuffer first
\* exactly when that job holds a pending draw, and records the clear in a
\* freshly fetched job; when that job holds no pending draw the clear is
\* recorded in it and it is not submitted (the only jobs such a clear
\* submits are other jobs holding a buffer it makes a write target); no
\* clear is recorded in a job that already holds a draw.
C16_ClearSubmitsOwnJobIffDrawPending ==
    [][/\ ClearMade =>
            LET key == ctx.framebuffer.key
                own == <<"lima_do_job", key>>
            IN  /\ DrawPending =>
                      /\ trace'[1] = own
                      /\ submitted'[Len(submitted) + 1] = jobs[key]
                /\ ~DrawPending => \A i \in 1..Len(trace') : trace'[i] # own
                /\ ClearRecorded
                /\ \A i \in 2..Len(trace') :
                      trace'[i][1] = "lima_do_job" =>
                         \E a \in jobs[trace'[i][2]].bos :
                            a[2] \in {ctx.framebuffer.cbuf, ctx.framebuffer.zsbuf}
       /\ NoClearAfterDraw(jobs', submitted')]_vars

\* A clear has followed a draw on the same framebuffer: the job holding the
\* draw was submitted and the clear is alone in a new job.
C16_Witness ==
    /\ call.op = "clear"
    /\ Len(submitted) = 1
    /\ submitted[1].ops = <<"clear", "draw">>
    /\ trace[1] = <<"lima_do_job", ctx.framebuffer.key>>
    /\ jobs[ctx.framebuffer.key].ops = <<"clear">>

\* Where the last call added res to the job of the bound framebuffer as a
\* write target: the positions in its trace.
WriteAdds(tr, res) ==
    { i \in 1..Len(tr) : tr[i] = <<"lima_job_add_bo", "PP", res, "WRITE">> }

\* The pending jobs that access res.
JobsAccessing(js, res) ==
    { k \in DOMAIN js : \E a \in js[k].bos : a[2] = res }

\* C17: whenever a draw or clear makes the colour buffer or the
\* depth/stencil buffer a write target of the current job, every other job
\* with a pending access to that buffer has been submitted before the buffer
\* is added with write access, and the resource is recorded as last written
\* by the current job; so no two pending jobs ever access a buffer one of
\* them writes.
C17_OtherJobsFlushedBeforeWrite ==
    [][/\ ncalls' = ncalls + 1 /\ call'.op \in {"draw", "clear"} =>
            LET key == ctx.framebuffer.key
            IN  \A res \in {ctx.framebuffer.cbuf, ctx.framebuffer.zsbuf} :
                  \A i \in WriteAdds(trace', res) :
                     /\ \A k \in JobsAccessing(jobs, res) \ {key} :
                           /\ \E n \in 1..(i - 1) :
                                 trace'[n] = <<"lima_do_job", k>>
                           /\ \E n \in (Len(submitted) + 1)..Len(submitted') :
                                 submitted'[n] = jobs[k]
                     /\ trace'[i - 1] = <<"write_jobs_insert", res>>
                     /\ write_jobs'[res] = key
                     /\ <<"PP", res, "WRITE">> \in jobs'[key].bos
       /\ \A res \in {"A", "Z"} :
             /\ Cardinality(JobsAccessing(jobs', res)) <= 1
             /\ \A k \in JobsAccessing(jobs', res) :
                   res \in DOMAIN write_jobs' /\ write_jobs'[res] = k]_vars

\* A draw made the depth buffer, held by the job of another framebuffer, a
\* write target of its job: the other job was submitted first.
C17_Witness ==
    /\ call.op = "draw"
    /\ \E i, j \in 1..Len(trace) :
          /\ i < j
          /\ trace[i][1] = "lima_do_job"
          /\ trace[i][2] # ctx.framebuffer.key
          /\ trace[j] = <<"lima_job_add_bo", "PP", "Z", "WRITE">>
    /\ write_jobs["Z"] = ctx.framebuffer.key
    /\ Len(submitted) = 1

\* An indexed draw has just been made and not skipped.
IndexedDrawEmitted ==
    /\ DrawEmitted
    /\ call'.dinfo.index_size # 0

\* Whether the last call made the named call.
Called(tr, name) == \E i \in 1..Len(tr) : tr[i][1] = name

\* The least and greatest index the last draw handed to the attribute
\* addresses and the vertex count.
UsedBounds(c, tr) ==
    /\ \E i \in 1..Len(tr) :
          tr[i] = <<"lima_update_gp_attribute_info", c.min_index>>
    /\ \E i \in 1..Len(tr) :
          tr[i] = <<"lima_pack_vs_cmd", c.max_index - c.min_index + 1>>

\* C18: an indexed draw that carries valid index bounds uses exactly those:
\* it neither consults the range cache nor scans the indices; only a draw
\* without valid bounds consults the cache of its resource, and scans and
\* inserts on a miss.
C18_ValidBoundsUsedDirectly ==
    [][IndexedDrawEmitted =>
         /\ call'.dinfo.index_bounds_valid =>
               /\ ~Called(trace', "panfrost_minmax_cache_get")
               /\ ~Called(trace', "u_vbuf_get_minmax_index")
               /\ ~Called(trace', "panfrost_minmax_cache_add")
               /\ index_cache' = index_cache
               /\ ctx'.min_index = call'.dinfo.min_index
               /\ ctx'.max_index = call'.dinfo.max_index
               /\ UsedBounds(ctx', trace')
         /\ Called(trace', "panfrost_minmax_cache_add")
               => Called(trace', "u_vbuf_get_minmax_index")]_vars

\* What the draw does (C18): the bounds the draw carries decide only for
\* user indices; for indices held by a resource the cache is consulted
\* whether or not the bounds are valid, and a miss scans and inserts.
C18_ValidBoundsDecideForUserIndicesOnly ==
    [][IndexedDrawEmitted =>
         LET d == call'.dinfo
             hit == panfrost_minmax_cache_get(
                        index_cache[d.resource], call'.draws[1]) # {}
         IN  /\ d.has_user_indices =>
                   /\ ~Called(trace', "panfrost_minmax_cache_get")
                   /\ Called(trace', "u_vbuf_get_minmax_index")
                         <=> ~d.index_bounds_valid
             /\ ~d.has_user_indices =>
                   /\ Called(trace', "panfrost_minmax_cache_get")
                   /\ Called(trace', "u_vbuf_get_minmax_index") <=> ~hit
                   /\ Called(trace', "panfrost_minmax_cache_add") <=> ~hit
             /\ d.index_bounds_valid =>
                   /\ ctx'.min_index = d.min_index
                   /\ ctx'.max_index = d.max_index
             /\ UsedBounds(ctx', trace')]_vars

\* A draw of indices held by a resource has just been made and not skipped.
ResourceDrawEmitted ==
    /\ IndexedDrawEmitted
    /\ ~call'.dinfo.has_user_indices

\* The entry of the cache of the drawn resource for the drawn range.
Cached(cache) ==
    panfrost_minmax_cache_get(cache[call'.dinfo.resource], call'.draws[1])

\* C19: of two indexed draws of the same range of the same index resource
\* with no cache invalidation in between, the first scans the indices and
\* inserts the range into the cache, the second does not scan and uses the
\* same min/max as the first.  In steps: a draw that does not find its range
\* scans and inserts it with the bounds it uses; every draw leaves its range
\* in the cache with the bounds it used; only an invalidation removes an
\* entry; a draw that finds its range does not scan and uses the entry.
C19_SecondDrawUsesCachedRange ==
    [][/\ ResourceDrawEmitted =>
            /\ Cached(index_cache) = {} =>
                  /\ Called(trace', "u_vbuf_get_minmax_index")
                  /\ Called(trace', "panfrost_minmax_cache_add")
            /\ \A e \in Cached(index_cache) :
                  /\ ~Called(trace', "u_vbuf_get_minmax_index")
                  /\ ctx'.min_index = e.min /\ ctx'.max_index = e.max
            /\ Cardinality(Cached(index_cache')) = 1
            /\ \A e \in Cached(index_cache') :
                  ctx'.min_index = e.min /\ ctx'.max_index = e.max
            /\ UsedBounds(ctx', trace')
       /\ call'.op # "invalidate" =>
            \A r \in DOMAIN index_cache : index_cache[r] \subseteq index_cache'[r]
       /\ (ResourceDrawEmitted /\ call.op = "draw" /\ call.dinfo.index_size # 0
             /\ call.dinfo.resource = call'.dinfo.resource
             /\ call.draws = call'.draws /\ trace # <<>>) =>
            /\ ~Called(trace', "u_vbuf_get_minmax_index")
            /\ ctx'.min_index = ctx.min_index
            /\ ctx'.max_index = ctx.max_index]_vars

\* The second of two draws of a range of a resource found the range in the
\* cache and did not scan; the bounds it used are those of the range.
C19_Witness ==
    /\ ncalls = 2
    /\ call.op = "draw" /\ call.dinfo.resource = "I"
    /\ ~call.dinfo.index_bounds_valid
    /\ call.draws = <<StartCount(1, 2)>>
    /\ \E i \in 1..Len(trace) :
          trace[i] = <<"panfrost_minmax_cache_get", "I", TRUE>>
    /\ ~Called(trace, "u_vbuf_get_minmax_index")
    /\ ctx.min_index = 1 /\ ctx.max_index = 2

\* C20: for user-supplied indices the range cache is never consulted and
\* never populated: every such draw without valid bounds scans the indices
\* it is given, and uses their least and greatest index.
C20_UserIndicesBypassCache ==
    [][IndexedDrawEmitted /\ call'.dinfo.has_user_indices =>
         /\ ~Called(trace', "panfrost_minmax_cache_get")
         /\ ~Called(trace', "panfrost_minmax_cache_add")
         /\ index_cache' = index_cache
         /\ ~call'.dinfo.index_bounds_valid =>
               /\ Called(trace', "u_vbuf_get_minmax_index")
               /\ <<ctx'.min_index, ctx'.max_index>> =
                     u_vbuf_get_minmax_index(call'.dinfo.user_indices,
                                             call'.draws[1])
               /\ UsedBounds(ctx', trace')]_vars

\* Two draws of user indices have been made into one job, the second
\* scanning its indices; every cache is still empty.
C20_Witness ==
    /\ ncalls = 2
    /\ call.op = "draw" /\ call.dinfo.has_user_indices
    /\ ~call.dinfo.index_bounds_valid
    /\ Called(trace, "u_vbuf_get_minmax_index")
    /\ jobs[ctx.framebuffer.key].plbu_cmd = 2
    /\ \A a \in jobs[ctx.framebuffer.key].bos : a[2] \notin IndexResources
    /\ \A r \in DOMAIN index_cache : index_cache[r] = {}

\* The sub-draws of the call just made: start and count of every packing of
\* primitive-list-builder commands, in order.
SubDraws(tr) ==
    LET packed == SelectSeq(tr, LAMBDA e : e[1] = "lima_pack_plbu_cmd")
    IN  [i \in 1..Len(packed) |-> StartCount(packed[i][3], packed[i][4])]

RECURSIVE SumCounts(_)
SumCounts(subs) ==
    IF subs = <<>> THEN 0 ELSE Head(subs).count + SumCounts(Tail(subs))

\* A call that drew one range of vertices, not indexed, and was not skipped.
ArrayDrawEmitted ==
    /\ call.op = "draw"
    /\ call.dinfo.index_size = 0
    /\ Len(call.draws) = 1
    /\ trace # <<>>

Varyings(vs) ==
    (0..(vs.num_outputs - 1)) \ {vs.gl_pos_idx, vs.point_size_idx}

\* Where varying i ends: its offset plus its size, 4 components.
VaryingEnd(vs, i) == vs.varying[i].offset + 4 * vs.varying[i].component_size

\* Where the varying before i ends, 0 when i is the first.
PreviousEnd(vs, i) ==
    LET before == { j \in Varyings(vs) : j < i }
    IN  IF before = {}
        THEN 0
        ELSE VaryingEnd(vs, CHOOSE j \in before : \A k \in before : k <= j)

\* C22: after a draw, every varying other than position and point size has
\* an offset: a multiple of 16 if its components are 4 bytes, the end of the
\* varying before it otherwise; no two ranges [offset, offset + 4 *
\* component_size) overlap, none reaches beyond the stride, and the stride is
\* a multiple of 16.
C22_VaryingLayout ==
    (call.op = "draw" /\ trace # <<>>) =>
        LET vs == ctx.vs
        IN  /\ \A i \in Varyings(vs) :
                  /\ IF vs.varying[i].component_size = 4
                     THEN /\ vs.varying[i].offset % 16 = 0
                          /\ vs.varying[i].offset >= PreviousEnd(vs, i)
                     ELSE vs.varying[i].offset = PreviousEnd(vs, i)
                  /\ VaryingEnd(vs, i) <= vs.varying_stride
            /\ \A i, j \in Varyings(vs) :
                  i < j => VaryingEnd(vs, i) <= vs.varying[j].offset
            /\ vs.varying_stride % 16 = 0

\* A varying of 2-byte components, then one of 4-byte components that is
\* moved up to offset 16, then one of 2-byte components right behind it.
C22_Witness ==
    /\ call.op = "draw"
    /\ trace # <<>>
    /\ \E i, j, k \in Varyings(ctx.vs) :
          /\ i < j /\ j < k
          /\ ctx.vs.varying[i].component_size = 2
          /\ ctx.vs.varying[i].offset = 0
          /\ ctx.vs.varying[j].component_size = 4
          /\ ctx.vs.varying[j].offset = 16
          /\ ctx.vs.varying[k].component_size = 2
          /\ ctx.vs.varying[k].offset = 32
    /\ ctx.vs.varying_stride = 48

\* Every job: the pending ones and the submitted ones.
AllJobs(js, done) ==
    { js[k] : k \in DOMAIN js } \cup { done[i] : i \in 1..Len(done) }

\* The bounding box of a set of rectangles.
BoundingBox(S) ==
    Rect(Least({ r.minx : r \in S }), Greatest({ r.maxx : r \in S }),
         Least({ r.miny : r \in S }), Greatest({ r.maxy : r \in S }))

\* rects united into rect one after the other, as the draw code does.
RECURSIVE UnionAll(_, _)
UnionAll(rect, rects) ==
    IF rects = <<>>
    THEN rect
    ELSE LET r == Head(rects)
         IN  UnionAll(lima_damage_rect_union(rect, r.minx, r.maxx,
                                             r.miny, r.maxy),
                      Tail(rects))

\* The orders n rectangles can be united in.
Orders(n) ==
    { p \in [1..n -> 1..n] : \A i, j \in 1..n : p[i] = p[j] => i = j }

\* Rectangle a lies within rectangle b.
Within(a, b) ==
    /\ b.minx <= a.minx /\ a.maxx <= b.maxx
    /\ b.miny <= a.miny /\ a.maxy <= b.maxy

\* The job of key k is the same job before and after the step: it was not
\* submitted and created anew.
SameJob(k) ==
    /\ k \in DOMAIN jobs /\ k \in DOMAIN jobs'
    /\ \A i \in 1..Len(trace') : trace'[i] # <<"lima_do_job", k>>

\* C23: the damage rectangle of a job is the bounding box of its initial
\* value and of every rectangle its clears (the whole framebuffer) and draws
\* (the clipped scissor) contributed; uniting the same rectangles in any
\* order gives that rectangle; and within a job it never shrinks.
C23_DamageIsBoundingBox ==
    [][/\ \A job \in AllJobs(jobs', submitted') :
             LET n == Len(job.damaged)
             IN  /\ job.damage_rect =
                        BoundingBox({NewJob.damage_rect} \cup
                                    { job.damaged[i] : i \in 1..n })
                 /\ \A p \in Orders(n) :
                        UnionAll(NewJob.damage_rect,
                                 [i \in 1..n |-> job.damaged[p[i]]])
                            = job.damage_rect
       /\ call'.op = "clear" =>
             LET fb == ctx'.framebuffer
                 d == jobs'[fb.key].damaged
             IN  d # <<>> /\ d[Len(d)] = Rect(0, fb.width, 0, fb.height)
       /\ (call'.op = "draw" /\ trace' # <<>>) =>
             LET d == jobs'[ctx'.framebuffer.key].damaged
             IN  d # <<>> /\ d[Len(d)] = ctx'.clipped_scissor
       /\ \A k \in DOMAIN jobs :
             SameJob(k) => Within(jobs[k].damage_rect, jobs'[k].damage_rect)]_vars

\* A job holds a clear of the whole framebuffer and then a draw clipped to a
\* part of it: its damage rectangle is still the whole framebuffer.
C23_Witness ==
    \E k \in DOMAIN jobs :
        /\ Len(jobs[k].damaged) = 2
        /\ jobs[k].ops = <<"clear", "draw">>
        /\ jobs[k].damaged[2] # jobs[k].damaged[1]
        /\ Within(jobs[k].damaged[2], jobs[k].damaged[1])
        /\ jobs[k].damage_rect = jobs[k].damaged[1]

\* A call of lima_draw_vbo has just been made.
DrawCalled == ncalls' = ncalls + 1 /\ call'.op = "draw"

\* The draws of the call whose count matches the mode, each with its count
\* trimmed to whole primitives, in the order given.
Matching(dinfo, draws) ==
    LET m == SelectSeq(draws,
                       LAMBDA d : u_trim_pipe_prim(dinfo.mode, d.count)[1])
    IN  [i \in 1..Len(m) |->
           StartCount(m[i].start, u_trim_pipe_prim(dinfo.mode, m[i].count)[2])]

\* The primitive-list-builder commands of the job of the bound framebuffer.
PlbuCmds(js, key) == IF key \in DOMAIN js THEN js[key].plbu_cmd ELSE 0

\* C24: a draw with no vertex or no fragment program bound, or whose mode and
\* count do not match, is skipped: it emits nothing and touches no job; the
\* other draws of the same call, before it and after it, are all processed.
C24_SkippedDrawDoesNotStopBatch ==
    [][DrawCalled =>
         LET key == ctx.framebuffer.key
             drawn == IF /\ ctx.bind_vs /\ ctx.bind_fs
                         /\ ~ZeroArea(lima_clip_scissor_to_viewport(ctx))
                      THEN Matching(call'.dinfo, call'.draws)
                      ELSE <<>>
         IN  /\ SubDraws(trace') = drawn
             /\ PlbuCmds(jobs', key) = PlbuCmds(jobs, key) + Len(drawn)
             /\ drawn = <<>> =>
                   /\ trace' = <<>>
                   /\ jobs' = jobs
                   /\ write_jobs' = write_jobs
                   /\ submitted' = submitted]_vars

\* Of three draws of triangles the second, of 2 vertices, was skipped and
\* the third was still made.
C24_Witness ==
    /\ call.op = "draw"
    /\ call.dinfo.mode = "TRIANGLES"
    /\ Len(call.draws) = 3
    /\ call.draws[2].count = 2
    /\ SubDraws(trace) = <<StartCount(0, 3), StartCount(5, 3)>>

\* How often the call just made took step name.
Times(tr, name) == Len(SelectSeq(tr, LAMBDA e : e[1] = name))

\* The position of the first step name in the trace of a call.
FirstAt(tr, name) ==
    CHOOSE i \in 1..Len(tr) :
        tr[i][1] = name /\ \A j \in 1..(i - 1) : tr[j][1] # name

PendingBos(js) == UNION { js[k].bos : k \in DOMAIN js }

\* bo is a vertex-output buffer.
IsGpOutput(bo) == \E n \in 0..(4 * (MaxCalls + 1)) : bo = GpOutput(n)

\* The positions of step name in the trace of a call, in order.
StepsAt(tr, name) ==
    LET at == { i \in 1..Len(tr) : tr[i][1] = name }
    IN  [k \in 1..Cardinality(at) |->
           CHOOSE i \in at : Cardinality({ j \in at : j < i }) = k - 1]

\* C25: every emitted draw or sub-draw allocates exactly one vertex-output
\* buffer and registers it with the job of the bound framebuffer, for the
\* write of the geometry pipe and the read of the fragment pipe, before its
\* commands are packed; the job holds it when the call returns; and
\* ctx->gp_output is NULL after every call, whatever the call was.
C25_OutputBufferPerDraw ==
    [][/\ ctx'.gp_output = NoRes
       /\ DrawCalled =>
            LET key == ctx.framebuffer.key
                packed == StepsAt(trace', "lima_pack_plbu_cmd")
                varying == StepsAt(trace', "lima_update_varying")
            IN  /\ ctx'.gp_outputs = ctx.gp_outputs + Len(packed)
                /\ Len(varying) = Len(packed)
                /\ \A k \in 1..Len(packed) :
                      LET bo == GpOutput(ctx.gp_outputs + k - 1)
                      IN  /\ varying[k] < packed[k]
                          /\ k > 1 => packed[k - 1] < varying[k]
                          /\ trace'[varying[k] - 2] =
                                <<"lima_job_add_bo", "GP", bo, "WRITE">>
                          /\ trace'[varying[k] - 1] =
                                <<"lima_job_add_bo", "PP", bo, "READ">>
                          /\ <<"GP", bo, "WRITE">> \in jobs'[key].bos
                          /\ <<"PP", bo, "READ">> \in jobs'[key].bos
                /\ \A a \in PendingBos(jobs') \ PendingBos(jobs) :
                      IsGpOutput(a[2]) =>
                         \E k \in 1..Len(packed) :
                            a[2] = GpOutput(ctx.gp_outputs + k - 1)]_vars

\* A draw was split in four: four output buffers, all held by the job, none
\* by the context.
C25_Witness ==
    /\ call.op = "draw"
    /\ Times(trace, "lima_pack_plbu_cmd") = 4
    /\ ctx.gp_outputs >= 5
    /\ ctx.gp_output = NoRes
    /\ \A n \in (ctx.gp_outputs - 4)..(ctx.gp_outputs - 1) :
          /\ <<"GP", GpOutput(n), "WRITE">> \in jobs[ctx.framebuffer.key].bos
          /\ <<"PP", GpOutput(n), "READ">> \in jobs[ctx.framebuffer.key].bos

\* The outcomes of the assertion of lima_pack_plbu_cmd in the call just
\* made, and the scissors its primitive-list-builder commands were packed
\* with.
Asserted(tr) ==
    { tr[i][2] : i \in { j \in 1..Len(tr) : tr[j][1] = "assert" } }

PackedScissors(tr) ==
    { tr[i][2] : i \in { j \in 1..Len(tr) : tr[j][1] = "lima_pack_plbu_cmd" } }

\* C29: the assertion of lima_pack_plbu_cmd holds whenever it is reached:
\* every draw and sub-draw that packs primitive-list-builder commands does
\* so with a clipped scissor of minx < maxx and miny < maxy, the one the
\* context holds.
C29_PlbuAssertionHolds ==
    /\ Asserted(trace) \subseteq {TRUE}
    /\ \A s \in PackedScissors(trace) :
          /\ s.minx < s.maxx
          /\ s.miny < s.maxy
          /\ s = ctx.clipped_scissor
    /\ Times(trace, "assert") = Times(trace, "lima_pack_plbu_cmd")

\* A draw split in four was packed under a viewport whose right edge is
\* negative: the assertion was made four times and held.
C29_Witness ==
    /\ call.op = "draw"
    /\ Times(trace, "assert") = 4
    /\ Asserted(trace) = {TRUE}
    /\ ctx.viewport.right < 0
    /\ ctx.clipped_scissor.maxx = 65535

\* The jobs that hold clears only, at least one.
ClearsOnly(job) ==
    /\ job.ops # <<>>
    /\ \A i \in 1..Len(job.ops) : job.ops[i] = "clear"

\* C30: when consecutive clears are coalesced into one job, the clear mask
\* the job records (clear.buffers) holds every buffer any of them cleared:
\* it is the union of their masks, as the resolve mask of such a job is.
C30_ClearMaskIsUnion ==
    \A job \in AllJobs(jobs, submitted) :
        ClearsOnly(job) => job.clear.buffers = job.resolve

\* What lima_clear does: the clear mask of the job is the mask of the last
\* clear alone, while the resolve mask gathers the masks of all.
C30_ClearMaskIsLastMask ==
    [][ClearMade =>
         LET key == ctx.framebuffer.key
         IN  /\ jobs'[key].clear.buffers = call'.buffers
             /\ jobs'[key].resolve =
                   call'.buffers \cup
                   (IF key \in DOMAIN jobs /\ ~DrawPending
                    THEN jobs[key].resolve ELSE {})]_vars

====
